---- MODULE Spec2Model ----
(***************************************************************************)
(* The IQ# kernel client of qsharp-core (qsharp/clients/iqsharp.py) as a   *)
(* state machine: the session (busy flag, liveness, installed capture      *)
(* hook), the dispatch of one command (IQSharpClient._execute), the        *)
(* demultiplexing of its reply stream (_handle_message and the handlers    *)
(* _execute installs) and the capture scopes (capture_diagnostics).        *)
(*                                                                         *)
(* The client takes no lock.  _execute blocks in the transport call        *)
(* kernel_client.execute_interactive, which calls the output hook once per *)
(* reply message and then returns or raises.  Code run from such a         *)
(* callback (a display handler, an import hook) may call back into the     *)
(* client, so the model keeps the call stack: a frame per open capture     *)
(* scope and per dispatch that is inside its transport call.  The client   *)
(* object is shared (qsharp.client), so a second thread may open and close *)
(* capture scopes while a dispatch drains its reply stream: SpecThreads.   *)
(*                                                                         *)
(* The conversions of qsharp/serialization.py, map_tuples and unmap_tuples,*)
(* are operators; SpecCodec applies them to the values of a bounded set.   *)
(* SpecMagic is the path of a call's keyword arguments through             *)
(* _execute_magic, SpecStartup is clients._start_client with is_ready and  *)
(* stop, and SpecLoader is dir() of a Q# namespace module (loader.py).     *)
(* SpecImport is the import hook of loader.py during a session,            *)
(* SpecCapture the package-level qsharp.capture_diagnostics, SpecProbe the *)
(* readiness probe inside capture scopes, SpecNamespaces the grouping of   *)
(* the operation listing by namespace, and SpecAzure the calls of          *)
(* azure.execute and azure.output.                                         *)
(***************************************************************************)
EXTENDS Integers, Naturals, Sequences, FiniteSets, TLC

VARIABLES
    busy,                   \* IQSharpClient._busy
    is_alive,               \* kernel_manager.is_alive(): the kernel process runs
    display_data_callback,  \* IQSharpClient.display_data_callback: 0 is None,
                            \* i > 0 is the callback closure of the scope frame stack[i]
    stack,                  \* call stack: open capture scopes and dispatches in flight
    ev,                     \* observation: what became of the last reply message
    last,                   \* observation: how the last finished dispatch ended
    codec,                  \* a value on its way through serialization.map_tuples
                            \* and serialization.unmap_tuples
    startup,                \* clients._start_client: its position, the readiness
                            \* probes made, and the last is_ready and stop calls
    loader,                 \* a Q# namespace module of loader.py and the answer
                            \* to a question asked of it
    diagnostics             \* observation: the list qsharp.capture_diagnostics
                            \* yielded to the scope that was left last

vars == <<busy, is_alive, display_data_callback, stack, ev, last, codec, startup, loader, diagnostics>>

(***************************************************************************)
(* Bounds of the model.                                                    *)
(***************************************************************************)
MaxDepth == 3       \* frames on the call stack
MaxResults == 2     \* terminal-result messages of one reply stream
MaxErrors == 2      \* stderr messages of one reply stream
MaxCaptured == 2    \* payloads collected by one capture scope
MaxTupleLen == 15   \* elements of a tuple handed to map_tuples
MaxListing == 3     \* names in a listing of %who

(***************************************************************************)
(* Python values, tagged by type.                                          *)
(***************************************************************************)
PyNone == [t |-> "None"]
PyBool(b) == [t |-> "bool", b |-> b]
PyInt(n) == [t |-> "int", i |-> n]
PyStr(s) == [t |-> "str", s |-> s]
PyList(xs) == [t |-> "list", xs |-> xs]
PyTuple(xs) == [t |-> "tuple", items |-> xs]
PyDict(kv) == [t |-> "dict", kv |-> kv]
PyPair(a, b) == [t |-> "pair", fst |-> a, snd |-> b]
NpArray(xs) == [t |-> "ndarray", elems |-> xs]
NpGeneric(v) == [t |-> "np.generic", item |-> v]
IntEnum(cls, name, value) == [t |-> "IntEnum", cls |-> cls, name |-> name, value |-> value]

\* types.Result and types.Pauli: the members and their integer codes
Result == {IntEnum("Result", "Zero", 0), IntEnum("Result", "One", 1)}
Pauli ==
    {IntEnum("Pauli", "I", 0), IntEnum("Pauli", "X", 1),
     IntEnum("Pauli", "Y", 3), IntEnum("Pauli", "Z", 2)}

\* Python ==, on the values compared here: an IntEnum member is an int
PyEq(a, b) ==
    IF a.t \in {"int", "IntEnum"} /\ b.t \in {"int", "IntEnum"}
    THEN (IF a.t = "int" THEN a.i ELSE a.value) = (IF b.t = "int" THEN b.i ELSE b.value)
    ELSE a = b

\* Python truth value testing, as used by `or` and `if x:`.
Truthy(v) ==
    CASE v.t = "None" -> FALSE
      [] v.t = "int" -> v.i # 0
      [] v.t = "str" -> v.s # ""
      [] v.t = "list" -> v.xs # <<>>
      [] v.t = "tuple" -> v.items # <<>>
      [] v.t = "dict" -> DOMAIN v.kv # {}
      [] v.t = "bool" -> v.b
      [] OTHER -> TRUE

\* Python `a or b`.
PyOr(a, b) == IF Truthy(a) THEN a ELSE b

\* Python dict.get(key, default) on a mapping with string keys.
Get(d, key, default) == IF key \in DOMAIN d THEN d[key] ELSE default

(***************************************************************************)
(* serialization.map_tuples and serialization.unmap_tuples.                *)
(***************************************************************************)
\* f"Item{n}" for the indices the model's mappings can hold.
ItemNames == <<"Item1", "Item2", "Item3", "Item4", "Item5", "Item6", "Item7", "Item8">>

max_tuple_length == 7

RECURSIVE map_tuples(_)
RECURSIVE map_list(_)
RECURSIVE unmap_tuples(_)
RECURSIVE unmap_items(_, _)
RECURSIVE unmap_items_skipping_gaps(_, _)
RECURSIVE unmap_list(_)

\* the for loop storing the elements as they are, not their encodings
map_items_shallow(items, n) ==
    [k \in {"@type"} \cup {ItemNames[i] : i \in 1..n} |->
        IF k = "@type" THEN PyStr("tuple")
        ELSE items[CHOOSE i \in 1..n : ItemNames[i] = k]]

\* result after the for loop of map_tuples: the discriminator and the
\* encodings of the first n elements under Item1 .. Item<n>
map_items(items, n) ==
    [k \in {"@type"} \cup {ItemNames[i] : i \in 1..n} |->
        IF k = "@type" THEN PyStr("tuple")
        ELSE map_tuples(items[CHOOSE i \in 1..n : ItemNames[i] = k])]

map_list(xs) ==
    IF xs = <<>> THEN <<>> ELSE <<map_tuples(Head(xs))>> \o map_list(Tail(xs))

map_tuples(obj) ==
    IF obj.t = "tuple"
    THEN LET n == Len(obj.items)
             result == map_items(obj.items,
                                 IF n < max_tuple_length THEN n ELSE max_tuple_length)
         IN  IF n > max_tuple_length
             THEN PyDict(("Rest" :> map_tuples(PyTuple(SubSeq(obj.items,
                                                   max_tuple_length + 1, n))))
                         @@ result)
             ELSE PyDict(result)
    ELSE IF obj.t = "list"
    THEN PyList(map_list(obj.xs))
    ELSE IF obj.t = "ndarray"
    THEN PyList(map_list(obj.elems))
    ELSE IF obj.t = "dict"
    THEN PyDict([k \in DOMAIN obj.kv |-> map_tuples(obj.kv[k])])
    ELSE IF obj.t = "np.generic"
    THEN obj.item
    ELSE obj

\* the while loop going on after a missing key, to the last name
unmap_items_skipping_gaps(kv, n) ==
    IF n > Len(ItemNames)
    THEN <<>>
    ELSE IF ItemNames[n] \in DOMAIN kv
    THEN <<unmap_tuples(kv[ItemNames[n]])>> \o unmap_items_skipping_gaps(kv, n + 1)
    ELSE unmap_items_skipping_gaps(kv, n + 1)

\* the `while True` loop of unmap_tuples: Item1, Item2, ... up to the first missing key
unmap_items(kv, n) ==
    IF n <= Len(ItemNames) /\ ItemNames[n] \in DOMAIN kv
    THEN <<unmap_tuples(kv[ItemNames[n]])>> \o unmap_items(kv, n + 1)
    ELSE <<>>

unmap_list(xs) ==
    IF xs = <<>> THEN <<>> ELSE <<unmap_tuples(Head(xs))>> \o unmap_list(Tail(xs))

unmap_tuples(obj) ==
    IF obj.t = "dict"
    THEN IF \/ Get(obj.kv, "@type", PyNone) \in {PyStr("tuple"), PyStr("@tuple")}
            \/ "Item1" \in DOMAIN obj.kv
         THEN PyTuple(unmap_items(obj.kv, 1))
         ELSE PyDict([k \in DOMAIN obj.kv |-> unmap_tuples(obj.kv[k])])
    ELSE IF obj.t = "list"
    THEN PyList(unmap_list(obj.xs))
    ELSE obj

\* the exception unmap_tuples raises on a decoded JSON value: it has no
\* raise statement and reads a dict only under keys it found present
unmap_tuples_error(obj) == ""

(***************************************************************************)
(* json.dumps on the value map_tuples returns: the JSON document, as a     *)
(* tree.  An int, and a member of an int subclass such as IntEnum, is      *)
(* written as the digits of its integer value.                             *)
(***************************************************************************)
JNull == [j |-> "null"]
JNum(n) == [j |-> "number", n |-> n]
JStr(s) == [j |-> "string", s |-> s]
JArr(xs) == [j |-> "array", xs |-> xs]
JObj(kv) == [j |-> "object", kv |-> kv]
JBool(b) == [j |-> "bool", b |-> b]

\* an IntEnum member written as a string, by its name
encode_int_by_name(obj) == IF obj.t = "IntEnum" THEN JStr(obj.name) ELSE JNum(obj.i)

\* the encoder's int case, int.__repr__(obj): an IntEnum member is an int
encode_int(obj) == JNum(IF obj.t = "IntEnum" THEN obj.value ELSE obj.i)

RECURSIVE json_dumps(_)
json_dumps(obj) ==
    CASE obj.t = "None" -> JNull
      [] obj.t = "bool" -> JBool(obj.b)
      [] obj.t \in {"int", "IntEnum"} -> encode_int(obj)
      [] obj.t = "str" -> JStr(obj.s)
      [] obj.t = "list" -> JArr([i \in 1..Len(obj.xs) |-> json_dumps(obj.xs[i])])
      [] obj.t = "tuple" -> JArr([i \in 1..Len(obj.items) |-> json_dumps(obj.items[i])])
      [] obj.t = "dict" -> JObj([k \in DOMAIN obj.kv |-> json_dumps(obj.kv[k])])

(***************************************************************************)
(* JSON texts of the reply messages and json.loads on them.                *)
(***************************************************************************)
JsonNull == "null"
JsonEmptyList == "[]"
JsonList == "[1]"
JsonTuple == "{\"@type\": \"tuple\", \"Item1\": 1}"

\* a state vector as the simulators dump it, and a state that is not mixed
JsonStateVector ==
    "{\"n_qubits\": 1, \"amplitudes\": {\"0\": {\"Real\": 1, \"Imaginary\": 0}}}"
JsonPureState == "{\"n_qubits\": 1, \"data\": {\"Pure\": [1]}}"
\* the histogram of a finished job and the error of a failed submission
JsonHistogram == "{\"0\": 1, \"1\": 3}"
JsonJobError ==
    "{\"error_code\": 1000, \"error_name\": \"JobSubmissionFailed\", \"error_description\": \"\"}"
\* the version table of %version
JsonVersionTable == "{\"rows\": [[\"iqsharp\", \"0.24\"]]}"

WireTuple == PyDict("@type" :> PyStr("tuple") @@ "Item1" :> PyInt(1))
StateVector ==
    PyDict("n_qubits" :> PyInt(1) @@
           "amplitudes" :>
               PyDict("0" :> PyDict("Real" :> PyInt(1) @@ "Imaginary" :> PyInt(0))))
PureState ==
    PyDict("n_qubits" :> PyInt(1) @@
           "data" :> PyDict("Pure" :> PyList(<<PyInt(1)>>)))
VersionTable ==
    PyDict("rows" :> PyList(<<PyList(<<PyStr("iqsharp"), PyStr("0.24")>>)>>))

json_loads(s) ==
    CASE s = JsonNull -> PyNone
      [] s = JsonEmptyList -> PyList(<<>>)
      [] s = JsonList -> PyList(<<PyInt(1)>>)
      [] s = JsonTuple -> WireTuple
      [] s = JsonStateVector -> StateVector
      [] s = JsonPureState -> PureState
      [] s = JsonVersionTable -> VersionTable
      [] s = JsonHistogram -> PyDict("0" :> PyInt(1) @@ "1" :> PyInt(3))
      [] s = JsonJobError ->
            PyDict("error_code" :> PyInt(1000) @@
                   "error_name" :> PyStr("JobSubmissionFailed") @@
                   "error_description" :> PyStr(""))

(***************************************************************************)
(* Reply messages of the Jupyter protocol.                                 *)
(***************************************************************************)
QSharpData == "application/x-qsharp-data"
AppJson == "application/json"
TextPlain == "text/plain"

ExecuteResult(data) == [msg_type |-> "execute_result", content |-> [data |-> data]]
RenderExecutionPath(p) ==
    [msg_type |-> "render_execution_path", content |-> [executionPath |-> p]]
DisplayData(data) == [msg_type |-> "display_data", content |-> [data |-> data]]
Stream(name, text) == [msg_type |-> "stream", content |-> [name |-> name, text |-> text]]
Status == [msg_type |-> "status", content |-> [execution_state |-> "busy"]]
NoMessage == [msg_type |-> "none"]

ErrorTexts == {"a", "b"}

\* The reply messages the kernel sends in the model: the terminal results,
\* the stream and status messages, and the display messages.
TerminalMessages ==
    {ExecuteResult(QSharpData :> JsonTuple),
     ExecuteResult(AppJson :> JsonTuple),
     ExecuteResult(QSharpData :> ""),
     ExecuteResult(AppJson :> ""),
     ExecuteResult(TextPlain :> "x"),
     RenderExecutionPath(WireTuple)}

StreamMessages ==
    {Stream("stderr", t) : t \in ErrorTexts} \cup {Stream("stdout", "a"), Status}

DisplayMessages ==
    {DisplayData(QSharpData :> JsonList),
     DisplayData(AppJson :> JsonEmptyList),
     DisplayData(TextPlain :> "x")}

(***************************************************************************)
(* IQSharpClient.check_status, with start() either succeeding or raising.  *)
(***************************************************************************)
\* check_status without the restart: a dead kernel is left dead
check_status_never_restarts(alive, start_raises) ==
    [raised |-> FALSE, restarted |-> FALSE, alive |-> alive]

\* check_status with the restart in a try statement that swallows its
\* exception
check_status_swallows(alive, start_raises) ==
    [raised |-> FALSE, restarted |-> ~alive /\ ~start_raises,
     alive |-> alive \/ ~start_raises]

check_status(alive, start_raises) ==
    IF alive
    THEN [raised |-> FALSE, restarted |-> FALSE, alive |-> TRUE]
    ELSE IF start_raises
    THEN [raised |-> TRUE, restarted |-> FALSE, alive |-> FALSE]
    ELSE [raised |-> FALSE, restarted |-> TRUE, alive |-> TRUE]

(***************************************************************************)
(* The handlers _execute installs and IQSharpClient._handle_message.       *)
(* A handler's effect on one message is the record                         *)
(*   results, errors: the accumulators after the message,                  *)
(*   append: what the capture hook appends to its collection,              *)
(*   displayed: calls of display_raw, sunk: calls of the fallback hook.    *)
(***************************************************************************)
\* callback with its fallback branch answering passthrough instead of True
callback_fallback_passthrough(msg, passthrough) ==
    LET msg_data ==
            PyOr(json_loads(Get(msg.content.data, AppJson, "null")),
                 json_loads(Get(msg.content.data, QSharpData, "null")))
    IN  IF msg_data # PyNone
        THEN [append |-> <<msg_data>>, forward |-> passthrough]
        ELSE [append |-> <<>>, forward |-> passthrough]

\* the closure `callback` of capture_diagnostics
callback(msg, passthrough) ==
    LET msg_data ==
            PyOr(json_loads(Get(msg.content.data, AppJson, "null")),
                 json_loads(Get(msg.content.data, QSharpData, "null")))
    IN  IF msg_data # PyNone
        THEN [append |-> <<msg_data>>, forward |-> passthrough]
        ELSE [append |-> <<>>, forward |-> TRUE]

\* display_raw installed whatever _quiet_ is
inner_handler_not_quiet(quiet) == 1

\* handlers['display_data'] before the capture filter is put around it:
\* display_raw unless quiet; no display_data_handler is passed, so the
\* quiet handler is the no-op lambda.
inner_handler(quiet) == IF quiet THEN 0 ELSE 1

\* handlers['display_data'](msg): filter_display_data when a hook was
\* installed at the start of the dispatch, the inner handler otherwise.
display_data_handler(msg, f, passthrough) ==
    IF f.filtered
    THEN LET c == callback(msg, passthrough)
         IN  [append |-> c.append,
              displayed |-> IF c.forward THEN inner_handler(f.quiet) ELSE 0]
    ELSE [append |-> <<>>, displayed |-> inner_handler(f.quiet)]

\* the fallback hook being the transport's default hook whatever the caller
\* passes
fallback_hook_ignores_caller(output_hook) == "_output_hook_default"

\* fallback_hook in _handle_message: the caller's output_hook, or
\* kernel_client._output_hook_default when it is None
fallback_hook(output_hook) ==
    IF output_hook THEN "output_hook" ELSE "_output_hook_default"

\* log_error putting the new line first
log_error_prepend(errors, text) == <<text>> \o errors

\* log_error
log_error(errors, text) == Append(errors, text)

\* _handle_message with error_callback set whatever raise_on_stderr is
handle_message_always_logs(msg, f, passthrough) ==
    LET same == [results |-> f.results, errors |-> f.errors, append |-> <<>>,
                 displayed |-> 0, sunk |-> 0, sink |-> ""]
    IN  IF msg.msg_type \in {"execute_result", "render_execution_path"}
        THEN [same EXCEPT !.results = Append(f.results, msg)]
        ELSE IF msg.msg_type = "display_data"
        THEN LET d == display_data_handler(msg, f, passthrough)
             IN  [same EXCEPT !.append = d.append, !.displayed = d.displayed]
        ELSE IF /\ msg.msg_type = "stream"
                /\ msg.content.name = "stderr"
        THEN [same EXCEPT !.errors = log_error(f.errors, msg.content.text)]
        ELSE [same EXCEPT !.sunk = 1, !.sink = fallback_hook(f.output_hook)]

\* _handle_message with the handlers and error_callback _execute passes:
\* error_callback is log_error if raise_on_stderr else None
handle_message(msg, f, passthrough) ==
    LET same == [results |-> f.results, errors |-> f.errors, append |-> <<>>,
                 displayed |-> 0, sunk |-> 0, sink |-> ""]
    IN  IF msg.msg_type \in {"execute_result", "render_execution_path"}
        THEN [same EXCEPT !.results = Append(f.results, msg)]
        ELSE IF msg.msg_type = "display_data"
        THEN LET d == display_data_handler(msg, f, passthrough)
             IN  [same EXCEPT !.append = d.append, !.displayed = d.displayed]
        ELSE IF /\ f.raise_on_stderr
                /\ msg.msg_type = "stream"
                /\ msg.content.name = "stderr"
        THEN [same EXCEPT !.errors = log_error(f.errors, msg.content.text)]
        ELSE [same EXCEPT !.sunk = 1, !.sink = fallback_hook(f.output_hook)]

(***************************************************************************)
(* The end of _execute: the finally clause and the assembly of the result. *)
(***************************************************************************)
\* the try statement without its finally clause: an exception leaves the
\* flag as it is
busy_no_finally(raised) == raised

\* self._busy after the try statement; `raised` tells whether the try block
\* was left by an exception (the flag is True whenever that happens).
busy_finally(raised) == FALSE

\* _get_qsharp_data reading the newer tag only
get_qsharp_data_newer_tag_only(content) ==
    IF QSharpData \in DOMAIN content.data
    THEN PyStr(content.data[QSharpData])
    ELSE PyNone

get_qsharp_data(content) ==
    IF QSharpData \in DOMAIN content.data
    THEN PyStr(content.data[QSharpData])
    ELSE IF AppJson \in DOMAIN content.data
    THEN PyStr(content.data[AppJson])
    ELSE PyNone

\* result_object without the call of unmap_tuples
result_object_raw(content) ==
    IF "executionPath" \in DOMAIN content
    THEN content.executionPath
    ELSE LET qsharp_data == get_qsharp_data(content)
         IN  IF Truthy(qsharp_data)
             THEN json_loads(qsharp_data.s)
             ELSE PyNone

\* obj of the single collected terminal-result message
result_object(content) ==
    IF "executionPath" \in DOMAIN content
    THEN content.executionPath
    ELSE LET qsharp_data == get_qsharp_data(content)
         IN  IF Truthy(qsharp_data)
             THEN unmap_tuples(json_loads(qsharp_data.s))
             ELSE PyNone

\* the end of _execute looking at the results before the errors
execute_outcome_results_first(errors, results, return_full_result) ==
    IF results # <<>>
    THEN IF Len(results) # 1
         THEN [error |-> "AssertionError", iqsharp_errors |-> <<>>, value |-> PyNone]
         ELSE LET content == results[1].content
                  obj == result_object(content)
              IN  [error |-> "", iqsharp_errors |-> <<>>,
                   value |-> IF return_full_result
                             THEN PyPair(obj, content) ELSE obj]
    ELSE IF errors # <<>>
    THEN [error |-> "IQSharpError", iqsharp_errors |-> errors, value |-> PyNone]
    ELSE [error |-> "", iqsharp_errors |-> <<>>, value |-> PyNone]

\* the end of _execute without its assert statement: the first of several
\* results is returned
execute_outcome_no_assert(errors, results, return_full_result) ==
    IF errors # <<>>
    THEN [error |-> "IQSharpError", iqsharp_errors |-> errors, value |-> PyNone]
    ELSE IF results # <<>>
    THEN LET content == results[1].content
             obj == result_object(content)
         IN  [error |-> "", iqsharp_errors |-> <<>>,
              value |-> IF return_full_result
                        THEN PyPair(obj, content) ELSE obj]
    ELSE [error |-> "", iqsharp_errors |-> <<>>, value |-> PyNone]

\* what _execute raises or returns once the transport call has returned
execute_outcome(errors, results, return_full_result) ==
    IF errors # <<>>
    THEN [error |-> "IQSharpError", iqsharp_errors |-> errors, value |-> PyNone]
    ELSE IF results # <<>>
    THEN IF Len(results) # 1
         THEN [error |-> "AssertionError", iqsharp_errors |-> <<>>, value |-> PyNone]
         ELSE LET content == results[1].content
                  obj == result_object(content)
              IN  [error |-> "", iqsharp_errors |-> <<>>,
                   value |-> IF return_full_result
                             THEN PyPair(obj, content) ELSE obj]
    ELSE [error |-> "", iqsharp_errors |-> <<>>, value |-> PyNone]

(***************************************************************************)
(* Frames of the call stack.                                               *)
(***************************************************************************)
\* an open `with client.capture_diagnostics(passthrough)` block
ScopeFrame(passthrough, old_callback) ==
    [kind |-> "scope", passthrough |-> passthrough, captured_data |-> <<>>,
     old_callback |-> old_callback]

\* a dispatch inside kernel_client.execute_interactive; hook is
\* self.display_data_callback when the handlers are set up.  filtered: the
\* display handler is filter_display_data (a hook was installed then).
\* began_under: observation, that hook.  stderr: observation, the texts of
\* the stderr messages delivered so far to a dispatch that raises on stderr.
ExecFrame(raise_on_stderr, quiet, hook, output_hook) ==
    [kind |-> "exec", raise_on_stderr |-> raise_on_stderr, quiet |-> quiet,
     output_hook |-> output_hook,
     filtered |-> hook # 0, began_under |-> hook,
     results |-> <<>>, errors |-> <<>>, stderr |-> <<>>]

Top == stack[Len(stack)]
Pop == SubSeq(stack, 1, Len(stack) - 1)
InFlight == {i \in 1..Len(stack) : stack[i].kind = "exec"}

IsStderr(msg) == msg.msg_type = "stream" /\ msg.content.name = "stderr"
IsTerminal(msg) == msg.msg_type \in {"execute_result", "render_execution_path"}
IsDisplay(msg) == msg.msg_type = "display_data"

\* the innermost open capture scope of a call stack, 0 if there is none
InnermostScope(stk) ==
    LET scopes == {i \in 1..Len(stk) : stk[i].kind = "scope"}
    IN  IF scopes = {} THEN 0 ELSE CHOOSE i \in scopes : \A j \in scopes : j <= i

\* the call stack once the frame i has returned
Without(i) == SubSeq(stack, 1, i - 1) \o SubSeq(stack, i + 1, Len(stack))

\* the value of began_under once the scope of that hook has exited: the
\* closure is installed no more and is the hook of no open scope
Closed == MaxDepth + 1

\* observation of a dispatch up to its busy check
Entered(error, iqsharp_errors, busy_at_entry, restarted, sent, busy_after) ==
    [phase |-> "entry", error |-> error, iqsharp_errors |-> iqsharp_errors,
     busy_at_entry |-> busy_at_entry, checked |-> TRUE, restarted |-> restarted,
     sent |-> sent, busy_after |-> busy_after]

\* observation of a dispatch leaving its transport call
Left(outcome, f, return_full_result, completed, busy_after) ==
    [phase |-> "exit", error |-> outcome.error,
     iqsharp_errors |-> outcome.iqsharp_errors, value |-> outcome.value,
     completed |-> completed, busy_after |-> busy_after,
     raise_on_stderr |-> f.raise_on_stderr,
     return_full_result |-> return_full_result,
     results |-> f.results, stderr |-> f.stderr,
     began_under |-> f.began_under]

NoEvent ==
    [msg |-> NoMessage, quiet |-> FALSE, raise_on_stderr |-> FALSE,
     hook |-> 0, began_under |-> 0, passthrough |-> FALSE, displayed |-> 0,
     sunk |-> 0, sink |-> "", output_hook |-> FALSE, results_changed |-> FALSE,
     appended |-> FALSE, errors_changed |-> FALSE]

Init ==
    /\ busy = FALSE
    /\ is_alive = TRUE
    /\ display_data_callback = 0
    /\ stack = <<>>
    /\ ev = NoEvent
    /\ last = [phase |-> "none"]
    /\ codec = [stage |-> "idle"]
    /\ startup = [pc |-> "idle"]
    /\ loader = [stage |-> "idle"]
    /\ diagnostics = [phase |-> "none"]

(***************************************************************************)
(* The kernel process dies (it is an external process).                    *)
(***************************************************************************)
KernelDies ==
    /\ is_alive
    /\ is_alive' = FALSE
    /\ UNCHANGED <<busy, display_data_callback, stack, ev, last, codec, startup, loader, diagnostics>>

(***************************************************************************)
(* capture_diagnostics: entering and leaving the with block.               *)
(***************************************************************************)
\* entering a nested scope without replacing the hook of the outer one
EnterScope_keeps_outer_hook(passthrough) ==
    /\ Len(stack) < MaxDepth
    /\ stack' = Append(stack, ScopeFrame(passthrough, display_data_callback))
    /\ display_data_callback' =
          IF display_data_callback # 0 THEN display_data_callback ELSE Len(stack) + 1
    /\ UNCHANGED <<busy, is_alive, ev, last, codec, startup, loader, diagnostics>>

EnterScope(passthrough) ==
    /\ Len(stack) < MaxDepth
    /\ stack' = Append(stack, ScopeFrame(passthrough, display_data_callback))
    /\ display_data_callback' = Len(stack) + 1
    /\ UNCHANGED <<busy, is_alive, ev, last, codec, startup, loader, diagnostics>>

\* the with block left without its finally clause: the hook is cleared
\* instead of restored
ExitScope_clears_hook ==
    /\ stack # <<>>
    /\ Top.kind = "scope"
    /\ display_data_callback' = 0
    /\ stack' = Pop
    /\ UNCHANGED <<busy, is_alive, ev, last, codec, startup, loader, diagnostics>>

\* the finally clause of the scope whose frame is stack[i]
RestoreHook(i) ==
    /\ i \in 1..Len(stack)
    /\ stack[i].kind = "scope"
    /\ display_data_callback' = stack[i].old_callback
    /\ stack' = [j \in 1..(Len(stack) - 1) |->
                    LET fr == Without(i)[j]
                    IN  IF fr.kind = "exec" /\ fr.began_under = i
                        THEN [fr EXCEPT !.began_under = Closed]
                        ELSE fr]
    /\ UNCHANGED <<busy, is_alive, ev, last, codec, startup, loader, diagnostics>>

\* the with block is left; the body ended normally or by an exception
ExitScope ==
    /\ stack # <<>>
    /\ Top.kind = "scope"
    /\ RestoreHook(Len(stack))

(***************************************************************************)
(* _execute up to the transport call: the liveness check, the handlers,    *)
(* the busy check, and the command handed to execute_interactive.          *)
(***************************************************************************)
Dispatch(raise_on_stderr, quiet, output_hook) ==
    \E start_raises \in BOOLEAN :
        LET cs == check_status(is_alive, start_raises)
        IN  \/ \* check_status raised: IQSharpError(["IQ# is not running."])
               /\ cs.raised
               /\ last' = Entered("IQSharpError", <<"IQ# is not running.">>,
                                  busy, cs.restarted, FALSE, busy)
               /\ UNCHANGED <<busy, is_alive, display_data_callback, stack, ev, codec, startup, loader, diagnostics>>
            \/ \* already executing: raise inside the try, then the finally clause
               /\ ~cs.raised
               /\ busy
               /\ busy' = busy_finally(TRUE)
               /\ is_alive' = cs.alive
               /\ last' = Entered("AlreadyExecutingError", <<>>,
                                  busy, cs.restarted, FALSE, busy')
               /\ UNCHANGED <<display_data_callback, stack, ev, codec, startup, loader, diagnostics>>
            \/ \* admitted: the command goes to the transport
               /\ ~cs.raised
               /\ ~busy
               /\ Len(stack) < MaxDepth
               /\ busy' = TRUE
               /\ is_alive' = cs.alive
               /\ stack' = Append(stack, ExecFrame(raise_on_stderr, quiet,
                                                   display_data_callback,
                                                   output_hook))
               /\ last' = Entered("", <<>>, busy, cs.restarted, TRUE, busy')
               /\ UNCHANGED <<display_data_callback, ev, codec, startup, loader, diagnostics>>

\* _execute as the methods of the client call it: output_hook is None
Execute(raise_on_stderr, quiet) == Dispatch(raise_on_stderr, quiet, FALSE)

\* _execute called with an output_hook of the caller
ExecuteOutputHook(raise_on_stderr) == Dispatch(raise_on_stderr, FALSE, TRUE)

(***************************************************************************)
(* The transport calls _output_hook for one reply message of the command   *)
(* whose execute_interactive call is the frame stack[n].                   *)
(***************************************************************************)
OutputHook(n, msg) ==
    /\ IsTerminal(msg) => Len(stack[n].results) < MaxResults
    /\ IsStderr(msg) => Len(stack[n].errors) < MaxErrors
    /\ LET f == stack[n]
           \* filter_display_data calls self.display_data_callback as it is
           \* now: calling None raises TypeError
           type_error == IsDisplay(msg) /\ f.filtered /\ display_data_callback = 0
           h == IF f.filtered THEN display_data_callback ELSE 0
           passthrough == IF h # 0 THEN stack[h].passthrough ELSE FALSE
           e == handle_message(msg, f, passthrough)
           g == [f EXCEPT !.results = e.results, !.errors = e.errors,
                          !.stderr = IF IsStderr(msg) /\ f.raise_on_stderr
                                     THEN Append(@, msg.content.text) ELSE @]
           new == [i \in 1..Len(stack) |->
                      IF i = n THEN g
                      ELSE IF i = h
                      THEN [stack[i] EXCEPT !.captured_data = @ \o e.append]
                      ELSE stack[i]]
       IN  IF type_error
           THEN \* the exception leaves execute_interactive and _execute
                /\ busy' = busy_finally(TRUE)
                /\ stack' = Without(n)
                /\ last' = Left([error |-> "TypeError", iqsharp_errors |-> <<>>,
                                 value |-> PyNone],
                                f, FALSE, FALSE, busy')
                /\ ev' = NoEvent
                /\ UNCHANGED <<is_alive, display_data_callback, codec, startup, loader, diagnostics>>
           ELSE /\ (h # 0 /\ e.append # <<>>) =>
                      Len(stack[h].captured_data) < MaxCaptured
                /\ stack' = new
                /\ ev' = [msg |-> msg, quiet |-> f.quiet,
                          raise_on_stderr |-> f.raise_on_stderr,
                          hook |-> h, began_under |-> f.began_under,
                          passthrough |-> passthrough,
                          displayed |-> e.displayed, sunk |-> e.sunk,
                          sink |-> e.sink, output_hook |-> f.output_hook,
                          results_changed |-> g.results # f.results,
                          appended |-> \E i \in 1..Len(stack) :
                                          /\ stack[i].kind = "scope"
                                          /\ new[i].captured_data # stack[i].captured_data,
                          errors_changed |-> g.errors # f.errors]
                /\ UNCHANGED <<busy, is_alive, display_data_callback, last, codec, startup, loader, diagnostics>>

\* the reply message goes to the dispatch whose transport call is innermost
Deliver(msg) ==
    /\ stack # <<>>
    /\ Top.kind = "exec"
    /\ OutputHook(Len(stack), msg)

(***************************************************************************)
(* execute_interactive returns: the finally clause, then the result.       *)
(* return_full_result is read only here, so it is drawn here.              *)
(***************************************************************************)
TransportReturns(return_full_result) ==
    /\ stack # <<>>
    /\ Top.kind = "exec"
    /\ busy' = busy_finally(FALSE)
    /\ stack' = Pop
    /\ last' = Left(execute_outcome(Top.errors, Top.results, return_full_result),
                    Top, return_full_result, TRUE, busy')
    /\ ev' = NoEvent
    /\ UNCHANGED <<is_alive, display_data_callback, codec, startup, loader, diagnostics>>

(***************************************************************************)
(* execute_interactive raises (a timeout, a transport error): the finally  *)
(* clause runs and the exception reaches the caller.                       *)
(***************************************************************************)
TransportRaises ==
    /\ stack # <<>>
    /\ Top.kind = "exec"
    /\ busy' = busy_finally(TRUE)
    /\ stack' = Pop
    /\ last' = Left([error |-> "TransportError", iqsharp_errors |-> <<>>,
                     value |-> PyNone],
                    Top, FALSE, FALSE, busy')
    /\ ev' = NoEvent
    /\ UNCHANGED <<is_alive, display_data_callback, codec, startup, loader, diagnostics>>

(***************************************************************************)
(* The values handed to the two conversions.                               *)
(***************************************************************************)
\* (1, 2, ..., n)
Range(n) == [i \in 1..n |-> PyInt(i)]

Scalars == {PyInt(1), PyStr("a")}

FlatTuples == {PyTuple(Range(n)) : n \in 0..MaxTupleLen}

Pairs == {PyTuple(<<x, y>>) : x, y \in Scalars}

\* the values of test_serialization.py (its floats and booleans as ints),
\* and tuples longer than max_tuple_length inside a list, a dict and a tuple
NestedValues ==
    {PyTuple(<<PyStr("a"), PyTuple(<<PyStr("b"), PyStr("c")>>)>>),
     PyDict("a" :> PyStr("b") @@ "c" :> PyTuple(<<PyStr("d"), PyStr("e")>>)),
     PyDict("foo" :> PyList(<<PyInt(1), PyInt(3), PyTuple(<<PyInt(42), PyStr("baz")>>)>>)
            @@ "bar" :> PyDict("a" :> PyTuple(<<PyStr("a"), PyStr("a")>>)
                               @@ "b" :> PyTuple(<<>>))),
     PyDict("a" :> PyDict("b" :> PyTuple(<<
         PyDict("c" :> PyTuple(<<PyStr("d"),
                                 PyList(<<PyStr("e"),
                                          PyTuple(<<PyStr("f"), PyStr("g"),
                                                    PyInt(12), PyInt(0)>>)>>)>>)),
         PyList(<<PyStr("h"),
                  PyDict("g" :> PyTuple(<<PyStr("i"), PyStr("j")>>))>>)>>))),
     PyList(<<PyTuple(Range(max_tuple_length + 1))>>),
     PyDict("a" :> PyTuple(Range(max_tuple_length + 1))),
     PyTuple(<<PyTuple(Range(max_tuple_length + 1)), PyInt(1)>>)}

\* plain mappings with one key, the names of the wire form among the keys
PlainMappings ==
    {PyDict(k :> v) : k \in {"a", "Item1", "Item2", "@type", "Rest"},
                      v \in {PyInt(1), PyStr("tuple"), PyStr("@tuple")}}
    \cup {PyDict("a" :> PyInt(1) @@ "Item1" :> PyInt(2))}

\* numpy arrays and a numpy scalar (test_map_numpy_types, test_map_ndarray)
NumpyValues ==
    {NpArray(Range(3)),
     NpArray(<<PyTuple(<<PyInt(0), PyStr("Zero")>>), PyTuple(<<PyInt(1), PyStr("One")>>)>>),
     NpGeneric(PyInt(1))}

\* arguments of a Q# callable that takes a Result or a Pauli: a member, its
\* integer code, or its name as Q# writes it (test_paulis)
EnumName(m) == IF m.cls = "Pauli" THEN "Pauli" \o m.name ELSE m.name

EnumArguments ==
    (Result \cup Pauli)
    \cup {PyInt(m.value) : m \in Result \cup Pauli}
    \cup {PyStr(EnumName(m)) : m \in Result \cup Pauli}
    \cup {PyList(<<IntEnum("Pauli", "Z", 2), IntEnum("Pauli", "X", 1)>>)}

Values ==
    FlatTuples \cup Pairs \cup NestedValues \cup PlainMappings \cup NumpyValues
    \cup EnumArguments

\* decoded JSON values as the kernel may send them: tuple encodings with and
\* without the discriminator, with a Rest entry, with missing item keys
WireValues ==
    {WireTuple,
     PyDict("Item1" :> PyInt(1) @@ "Item2" :> PyInt(2)),
     PyDict("@type" :> PyStr("@tuple") @@ "Item1" :> PyInt(1)),
     PyDict("@type" :> PyStr("tuple") @@ "Item1" :> PyInt(1) @@ "Item3" :> PyInt(3)),
     PyDict("Item1" :> PyInt(1) @@ "Item3" :> PyInt(3) @@ "Item4" :> PyInt(4)),
     PyDict("@type" :> PyStr("tuple") @@ "Item2" :> PyInt(2)),
     PyDict("@type" :> PyStr("tuple") @@ "Item1" :> PyInt(1)
            @@ "Rest" :> PyDict("@type" :> PyStr("tuple") @@ "Item1" :> PyInt(2))),
     PyDict("Item1" :> PyInt(1) @@ "Rest" :> PyDict("Item1" :> PyInt(2))),
     PyDict("@type" :> PyStr("tuple")
            @@ [k \in {ItemNames[i] : i \in 1..Len(ItemNames)} |->
                   PyInt(CHOOSE i \in 1..Len(ItemNames) : ItemNames[i] = k)]),
     PyList(<<WireTuple, PyDict("@type" :> PyStr("tuple"))>>),
     PyDict("a" :> PyDict("@type" :> PyStr("tuple") @@ "Item2" :> PyInt(2)
                          @@ "Item1" :> WireTuple))}
    \cup {PyInt(m.value) : m \in Result \cup Pauli}

\* a value before map_tuples, or a decoded JSON value before unmap_tuples;
\* doc is the JSON document of the wire form once json.dumps has run
InitCodec ==
    /\ busy = FALSE
    /\ is_alive = TRUE
    /\ display_data_callback = 0
    /\ stack = <<>>
    /\ ev = NoEvent
    /\ last = [phase |-> "none"]
    /\ startup = [pc |-> "idle"]
    /\ loader = [stage |-> "idle"]
    /\ diagnostics = [phase |-> "none"]
    /\ \/ \E obj \in Values :
             codec = [stage |-> "value", encoded |-> TRUE, obj |-> obj,
                      wire |-> PyNone, doc |-> JNull, decoded |-> PyNone,
                      error |-> ""]
       \/ \E obj \in WireValues :
             codec = [stage |-> "wire", encoded |-> FALSE, obj |-> PyNone,
                      wire |-> obj, doc |-> JNull, decoded |-> PyNone,
                      error |-> ""]

\* map_tuples(obj): the wire form of an argument
CallMapTuples ==
    /\ codec.stage = "value"
    /\ codec' = [codec EXCEPT !.stage = "wire", !.wire = map_tuples(codec.obj)]
    /\ UNCHANGED <<busy, is_alive, display_data_callback, stack, ev, last, startup, loader, diagnostics>>

\* json.dumps(map_tuples(kwargs)): the argument as the command carries it
CallJsonDumps ==
    /\ codec.stage = "wire"
    /\ codec.encoded
    /\ codec' = [codec EXCEPT !.stage = "json", !.doc = json_dumps(codec.wire)]
    /\ UNCHANGED <<busy, is_alive, display_data_callback, stack, ev, last, startup, loader, diagnostics>>

\* unmap_tuples(obj) on a decoded JSON value
CallUnmapTuples ==
    /\ codec.stage = "wire"
    /\ codec' = [codec EXCEPT !.stage = "decoded",
                              !.decoded = unmap_tuples(codec.wire),
                              !.error = unmap_tuples_error(codec.wire)]
    /\ UNCHANGED <<busy, is_alive, display_data_callback, stack, ev, last, startup, loader, diagnostics>>

(***************************************************************************)
(* The simulator methods and _execute_magic: the keyword arguments of a    *)
(* call become the JSON argument of the command, _timeout_ apart.          *)
(***************************************************************************)
DEFAULT_TIMEOUT == 120

\* dict.setdefault(key, value) on the keyword arguments
setdefault(kwargs, key, value) ==
    IF key \in DOMAIN kwargs THEN kwargs ELSE (key :> value) @@ kwargs

\* the public methods that go through _execute_callable_magic
UnboundedMethods == {"simulate", "simulate_sparse", "toffoli_simulate", "estimate"}
MagicMethods == UnboundedMethods \cup {"trace", "_execute_callable_magic"}

\* the keyword arguments the method hands to _execute_callable_magic
method_kwargs(method, kwargs) ==
    IF method \in UnboundedMethods
    THEN setdefault(kwargs, "_timeout_", PyNone)
    ELSE kwargs

\* _execute_magic reading _timeout_ with kwargs.get: the key stays in kwargs
execute_magic_get(kwargs) ==
    [timeout |-> IF "_timeout_" \in DOMAIN kwargs
                 THEN kwargs["_timeout_"] ELSE PyInt(DEFAULT_TIMEOUT),
     args |-> json_dumps(map_tuples(PyDict(kwargs))),
     return_full_result |-> FALSE]

\* _execute_magic: kwargs.pop('_timeout_', DEFAULT_TIMEOUT), then
\* json.dumps(map_tuples(kwargs)) on what is left.  Its named parameters are
\* magic, raise_on_stderr and _quiet_: every other keyword is in kwargs, and
\* _execute is called without return_full_result, which is False by default.
execute_magic(kwargs) ==
    [timeout |-> IF "_timeout_" \in DOMAIN kwargs
                 THEN kwargs["_timeout_"] ELSE PyInt(DEFAULT_TIMEOUT),
     args |-> json_dumps(map_tuples(PyDict(
                 [k \in DOMAIN kwargs \ {"_timeout_"} |-> kwargs[k]]))),
     return_full_result |-> FALSE]

\* keyword arguments of a Q# callable, and the _timeout_ option: absent,
\* None, or a number of seconds
CallableArguments ==
    {<<>>,
     "n" :> PyInt(1),
     "pauli" :> IntEnum("Pauli", "X", 1),
     "pair" :> PyTuple(<<PyInt(1), PyStr("a")>>),
     "n" :> PyInt(2) @@ "xs" :> PyList(<<PyInt(1), PyInt(2)>>)}

TimeoutOptions ==
    {<<>>, "_timeout_" :> PyNone, "_timeout_" :> PyInt(6),
     "_timeout_" :> PyInt(DEFAULT_TIMEOUT)}

\* a method of the client is about to be called with keyword arguments
InitMagic ==
    /\ busy = FALSE
    /\ is_alive = TRUE
    /\ display_data_callback = 0
    /\ stack = <<>>
    /\ ev = NoEvent
    /\ last = [phase |-> "none"]
    /\ startup = [pc |-> "idle"]
    /\ loader = [stage |-> "idle"]
    /\ diagnostics = [phase |-> "none"]
    /\ \E method \in MagicMethods, arguments \in CallableArguments,
          option \in TimeoutOptions :
           codec = [stage |-> "kwargs", method |-> method,
                    kwargs |-> option @@ arguments,
                    timeout |-> PyNone, args |-> JNull]

\* the method runs down to the call of _execute
CallMagic ==
    /\ codec.stage = "kwargs"
    /\ LET command == execute_magic(method_kwargs(codec.method, codec.kwargs))
       IN  codec' = [codec EXCEPT !.stage = "command",
                                  !.timeout = command.timeout,
                                  !.args = command.args]
    /\ UNCHANGED <<busy, is_alive, display_data_callback, stack, ev, last, startup, loader, diagnostics>>

(***************************************************************************)
(* clients._start_client, IQSharpClient.is_ready and IQSharpClient.stop.   *)
(***************************************************************************)
\* outcomes of kernel_client.execute_interactive("%version", timeout=6)
TransportOutcomes == {"returns", "TimeoutError", "TransportError"}

\* the display_data message of the %version reply as capture reads it:
\* the version table, a payload without a table, or no message at all
VersionReplies == {"rows", "malformed", "none"}

\* component_versions(_timeout_=6): the exception it ends with, "" if it
\* returns the versions.  capture raises on a payload it cannot read, inside
\* the transport call; raise_on_stderr is off, so no error is accumulated.
component_versions(alive, start_raises, busy_now, transport, reply) ==
    IF check_status(alive, start_raises).raised THEN "IQSharpError"
    ELSE IF busy_now THEN "AlreadyExecutingError"
    ELSE IF reply = "malformed" THEN "KeyError"
    ELSE IF transport # "returns" THEN transport
    ELSE ""

\* is_ready with an except clause for IQSharpError only
is_ready_catches_iqsharp_error(exception) ==
    [raised |-> exception \notin {"", "IQSharpError"},
     value |-> IF exception # "" THEN PyNone ELSE PyBool(TRUE)]

\* is_ready: a bare return (None) in the except clause, True after it
is_ready(exception) ==
    [raised |-> FALSE,
     value |-> IF exception # "" THEN PyNone ELSE PyBool(TRUE)]

\* one iteration of the polling loop without its except clause
poll_without_except(server_ready, probe) ==
    [server_ready |-> IF probe.raised THEN server_ready ELSE probe.value,
     break |-> ~probe.raised /\ Truthy(probe.value),
     raised |-> probe.raised]

\* one iteration of the polling loop, on the outcome of client.is_ready()
poll(server_ready, probe) ==
    IF probe.raised
    THEN [server_ready |-> server_ready, break |-> FALSE, raised |-> FALSE]
    ELSE [server_ready |-> probe.value, break |-> Truthy(probe.value),
          raised |-> FALSE]

\* stop without its try statement
stop_without_except(shutdown_raises) == [raised |-> shutdown_raises]

\* stop: try: shutdown_kernel() except: pass
stop(shutdown_raises) == [raised |-> FALSE]

NoProbe == [client |-> "", exception |-> "", raised |-> FALSE, value |-> PyNone]
NoStop == [called |-> FALSE, raised |-> FALSE, shutdown_raised |-> FALSE,
           was |-> ""]

\* range(20)
attempts == 20

\* _start_client is entered: QSHARP_PY_CLIENT names the client, no kernel runs
InitStartup ==
    /\ busy = FALSE
    /\ is_alive = FALSE
    /\ display_data_callback = 0
    /\ stack = <<>>
    /\ ev = NoEvent
    /\ last = [phase |-> "none"]
    /\ codec = [stage |-> "idle"]
    /\ loader = [stage |-> "idle"]
    /\ diagnostics = [phase |-> "none"]
    /\ \E client_name \in {"iqsharp", "mock"} :
           startup = [pc |-> "created", client_name |-> client_name,
                      kernel |-> "never started", idx_attempt |-> 0,
                      failed |-> 0, server_ready |-> PyBool(FALSE),
                      error |-> "", probe |-> NoProbe, stop |-> NoStop]

\* client.start() and its except clause
StartClient ==
    /\ startup.pc = "created"
    /\ startup.kernel = "never started"
    /\ \E outcome \in {"started", "NoSuchKernel", "OSError"} :
           /\ is_alive' = (outcome = "started")
           /\ startup' =
                 IF outcome = "started"
                 THEN [startup EXCEPT !.pc = "polling", !.kernel = "running"]
                 ELSE [startup EXCEPT
                          !.pc = "raised",
                          !.error = IF outcome = "NoSuchKernel"
                                    THEN "IQSharpNotInstalledError"
                                    ELSE outcome]
    /\ UNCHANGED <<busy, display_data_callback, stack, ev, last, codec, loader, diagnostics>>

\* the outcomes of client.is_ready(): IQSharpClient.is_ready on the outcome
\* of its status command; any outcome for the mock client
Probes(client_name, alive, busy_now) ==
    IF client_name = "iqsharp"
    THEN {[client |-> "iqsharp", exception |-> x, alive |-> a,
           raised |-> is_ready(x).raised, value |-> is_ready(x).value] :
            <<x, a>> \in
              {<<component_versions(alive, start_raises, busy_now, transport, reply),
                 IF check_status(alive, start_raises).raised THEN alive
                 ELSE check_status(alive, start_raises).alive>> :
                  start_raises \in BOOLEAN, transport \in TransportOutcomes,
                  reply \in VersionReplies}}
    ELSE {[client |-> "mock", exception |-> "", alive |-> alive,
           raised |-> FALSE, value |-> PyBool(b)] : b \in BOOLEAN}
         \cup {[client |-> "mock", exception |-> "Exception", alive |-> alive,
                raised |-> TRUE, value |-> PyNone]}

Observed(probe) ==
    [client |-> probe.client, exception |-> probe.exception,
     raised |-> probe.raised, value |-> probe.value]

\* one iteration of the for loop, and what follows the loop when it ends
PollIsReady ==
    /\ startup.pc = "polling"
    /\ startup.idx_attempt < attempts
    /\ \E probe \in Probes(startup.client_name, is_alive, busy) :
           LET step == poll(startup.server_ready, probe)
               made == startup.idx_attempt + 1
           IN  /\ is_alive' = probe.alive
               /\ startup' =
                     [startup EXCEPT
                        !.idx_attempt = made,
                        !.failed = IF step.break THEN @ ELSE @ + 1,
                        !.server_ready = step.server_ready,
                        !.probe = Observed(probe),
                        !.pc = IF step.raised THEN "raised"
                               ELSE IF step.break THEN "returned"
                               ELSE IF made < attempts THEN "polling"
                               ELSE IF Truthy(step.server_ready) THEN "returned"
                               ELSE "raised",
                        !.error = IF step.raised THEN probe.exception
                                  ELSE IF ~step.break /\ made = attempts
                                          /\ ~Truthy(step.server_ready)
                                  THEN "IQSharpNotAvailableError"
                                  ELSE ""]
    /\ UNCHANGED <<busy, display_data_callback, stack, ev, last, codec, loader, diagnostics>>

\* is_ready called on the session _start_client returned, from the caller's
\* code or from inside a callback of a command in flight
CallIsReady ==
    /\ startup.pc = "returned"
    /\ startup.client_name = "iqsharp"
    /\ \E busy_now \in BOOLEAN :
       \E probe \in Probes("iqsharp", is_alive, busy_now) :
           /\ is_alive' = probe.alive
           /\ startup' = [startup EXCEPT
                             !.probe = Observed(probe),
                             !.kernel = IF probe.alive THEN "running" ELSE @]
    /\ UNCHANGED <<busy, display_data_callback, stack, ev, last, codec, loader, diagnostics>>

\* stop, called by the caller or at exit, on a client in any state
Stop ==
    /\ startup.pc # "polling"
    /\ \E shutdown_raises \in BOOLEAN :
           /\ is_alive' = IF shutdown_raises THEN is_alive ELSE FALSE
           /\ startup' =
                 [startup EXCEPT
                    !.kernel = IF shutdown_raises \/ @ = "never started"
                               THEN @ ELSE "stopped",
                    !.stop = [called |-> TRUE,
                              raised |-> stop(shutdown_raises).raised,
                              shutdown_raised |-> shutdown_raises,
                              was |-> IF startup.kernel = "running" /\ ~is_alive
                                      THEN "dead" ELSE startup.kernel]]
    /\ UNCHANGED <<busy, display_data_callback, stack, ev, last, codec, loader, diagnostics>>

(***************************************************************************)
(* loader.QSharpModule: Q# namespaces as Python modules.  A qualified name *)
(* is the sequence of its dot-separated parts.                             *)
(***************************************************************************)
\* the operations the kernel may report: %who
AvailableOperations ==
    {<<"A", "B", "C">>, <<"A", "B", "D">>, <<"A", "B", "E", "F">>,
     <<"A", "E">>, <<"G", "H", "B", "C">>}

\* the namespaces dir() is asked about
ModuleNames == {<<"A">>, <<"A", "B">>, <<"G">>}

\* the order of str on the parts
Ord == "A" :> 1 @@ "B" :> 2 @@ "C" :> 3 @@ "D" :> 4 @@ "E" :> 5 @@ "F" :> 6
       @@ "G" :> 7 @@ "H" :> 8

RECURSIVE Insert(_, _)
Insert(x, xs) ==
    IF xs = <<>> THEN <<x>>
    ELSE IF Ord[x] <= Ord[xs[1]] THEN <<x>> \o xs
    ELSE <<xs[1]>> \o Insert(x, Tail(xs))

\* sorted(xs) on a list of parts
RECURSIVE sorted(_)
sorted(xs) == IF xs = <<>> THEN <<>> ELSE Insert(xs[1], sorted(Tail(xs)))

\* a list of the elements of a set, each once
RECURSIVE ListOf(_)
ListOf(S) ==
    IF S = {} THEN <<>>
    ELSE LET x == CHOOSE y \in S : TRUE IN <<x>> \o ListOf(S \ {x})

\* qualified_name[:idx_last_dot] and qualified_name[idx_last_dot + 1:]
ns_name(qualified_name) == SubSeq(qualified_name, 1, Len(qualified_name) - 1)
op_name(qualified_name) == qualified_name[Len(qualified_name)]

\* qsharp.get_available_operations_by_namespace() on the list %who returned
get_available_operations_by_namespace(ops) ==
    [ns \in {ns_name(ops[i]) : i \in 1..Len(ops)} |->
        LET Mine(q) == ns_name(q) = ns
            mine == SelectSeq(ops, Mine)
        IN  [i \in 1..Len(mine) |-> op_name(mine[i])]]

\* _all_sub_namespaces_as_parts: every namespace and every prefix of it
all_sub_namespaces_as_parts(ops) ==
    UNION {{SubSeq(ns, 1, k) : k \in 1..Len(ns)} :
              ns \in DOMAIN get_available_operations_by_namespace(ops)}

\* _immediate_sub_namespaces: one name for each namespace below qs_name
immediate_sub_namespaces(qs_name, ops) ==
    LET below == ListOf({n \in all_sub_namespaces_as_parts(ops) :
                           /\ Len(n) > Len(qs_name)
                           /\ SubSeq(n, 1, Len(qs_name)) = qs_name})
    IN  [i \in 1..Len(below) |-> below[i][Len(qs_name) + 1]]

\* QSharpModule.__dir__
dir(qs_name, ops) ==
    LET by_ns == get_available_operations_by_namespace(ops)
    IN  sorted(immediate_sub_namespaces(qs_name, ops)
               \o (IF qs_name \in DOMAIN by_ns THEN by_ns[qs_name] ELSE <<>>))

\* a Q# namespace module exists and the kernel reports some operations
InitLoader ==
    /\ busy = FALSE
    /\ is_alive = TRUE
    /\ display_data_callback = 0
    /\ stack = <<>>
    /\ ev = NoEvent
    /\ last = [phase |-> "none"]
    /\ codec = [stage |-> "idle"]
    /\ startup = [pc |-> "idle"]
    /\ diagnostics = [phase |-> "none"]
    /\ \E qs_name \in ModuleNames, available \in SUBSET AvailableOperations :
           loader = [stage |-> "module", qs_name |-> qs_name,
                     ops |-> ListOf(available), result |-> <<>>]

\* dir(module)
CallDir ==
    /\ loader.stage = "module"
    /\ loader' = [loader EXCEPT !.stage = "dir",
                                !.result = dir(loader.qs_name, loader.ops)]
    /\ UNCHANGED <<busy, is_alive, display_data_callback, stack, ev, last,
                   codec, startup,
                      diagnostics>>

\* QSharpModuleFinder.find_module, called by an import statement anywhere,
\* a callback of a command in flight included: None if the client says it is
\* busy; otherwise get_available_operations_by_namespace dispatches %who
\* through _execute (raise_on_stderr=False), here up to its transport call.
find_module ==
    LET in_flight == InFlight # {}
    IN  IF busy
        THEN /\ loader' = [stage |-> "find_module", in_flight |-> in_flight,
                           result |-> "None", sent |-> FALSE]
             /\ UNCHANGED <<busy, is_alive, display_data_callback, stack, ev,
                            last, codec, startup,
                               diagnostics>>
        ELSE \E start_raises \in BOOLEAN :
                 LET cs == check_status(is_alive, start_raises)
                 IN  IF cs.raised
                     THEN /\ loader' = [stage |-> "find_module",
                                        in_flight |-> in_flight,
                                        result |-> "IQSharpError", sent |-> FALSE]
                          /\ last' = Entered("IQSharpError", <<"IQ# is not running.">>,
                                             busy, cs.restarted, FALSE, busy)
                          /\ UNCHANGED <<busy, is_alive, display_data_callback,
                                         stack, ev, codec, startup,
                                            diagnostics>>
                     ELSE /\ Len(stack) < MaxDepth
                          /\ busy' = TRUE
                          /\ is_alive' = cs.alive
                          /\ stack' = Append(stack, ExecFrame(FALSE, FALSE,
                                                              display_data_callback,
                                                              FALSE))
                          /\ last' = Entered("", <<>>, busy, cs.restarted, TRUE, busy')
                          /\ loader' = [stage |-> "find_module",
                                        in_flight |-> in_flight,
                                        result |-> "pending", sent |-> TRUE]
                          /\ UNCHANGED <<display_data_callback, ev, codec, startup,
                             diagnostics>>

(***************************************************************************)
(* qsharp.capture_diagnostics, the package-level scope around the client's *)
(* capture_diagnostics, and qobj.convert_diagnostic_to_qobj.  QuTiP is     *)
(* taken to be installed, so as_qobj=True does not raise ImportError.      *)
(***************************************************************************)
\* Python's `key in data` for a dict (its keys) and a list (its elements)
In(key, data) ==
    CASE data.t = "dict" -> key \in DOMAIN data.kv
      [] data.t = "list" -> \E i \in 1..Len(data.xs) : data.xs[i] = PyStr(key)
      [] data.t = "tuple" -> \E i \in 1..Len(data.items) : data.items[i] = PyStr(key)
      \* a substring test; no str of the model is longer than a key
      [] data.t = "str" -> data.s = key

Qobj(type, n_qubits, arr) ==
    [t |-> "Qobj", type |-> type, n_qubits |-> n_qubits, arr |-> arr]

\* list(d.keys())[0] of a dict with one key
FirstKey(d) == CHOOSE k \in DOMAIN d.kv : TRUE

convert_diagnostic_to_qobj(data) ==
    IF In("amplitudes", data)
    THEN Qobj("ket", data.kv["n_qubits"].i, data.kv["amplitudes"])
    ELSE IF In("n_qubits", data) /\ In("data", data)
    THEN LET kind == FirstKey(data.kv["data"])
         IN  IF kind # "Mixed"
             THEN PyNone
             ELSE Qobj("oper", data.kv["n_qubits"].i, data.kv["data"].kv[kind])
    ELSE IF In("Qubits", data) /\ In("Data", data)
    THEN Qobj("oper", Len(data.kv["Qubits"].xs), data.kv["Data"])
    ELSE PyNone

\* the postprocessing loop placed in a finally clause: it runs after an
\* exception in the body too
postprocess_in_finally(data, as_qobj, by_exception) ==
    [i \in 1..Len(data) |->
        LET converted == IF as_qobj THEN convert_diagnostic_to_qobj(data[i])
                         ELSE PyNone
        IN  IF as_qobj /\ converted # PyNone THEN converted ELSE data[i]]

\* processed_data when the with block is left: the loop after the yield
\* runs only when the body returned normally
postprocess(data, as_qobj, by_exception) ==
    IF by_exception
    THEN <<>>
    ELSE [i \in 1..Len(data) |->
            LET converted == IF as_qobj THEN convert_diagnostic_to_qobj(data[i])
                             ELSE PyNone
            IN  IF as_qobj /\ converted # PyNone THEN converted ELSE data[i]]

\* the frame of a package-level scope: the client's scope, as_qobj, and the
\* list the with statement binds
DiagnosticsFrame(passthrough, as_qobj, old_callback) ==
    [kind |-> "scope", passthrough |-> passthrough, captured_data |-> <<>>,
     old_callback |-> old_callback, as_qobj |-> as_qobj,
     processed_data |-> <<>>]

\* the display messages a simulator sends for DumpMachine and its relatives
DiagnosticMessages ==
    {DisplayData(QSharpData :> JsonStateVector),
     DisplayData(QSharpData :> JsonPureState)}

\* the with statement is entered: client.capture_diagnostics installs its
\* callback and processed_data is yielded
capture_diagnostics(passthrough, as_qobj) ==
    /\ Len(stack) < MaxDepth
    /\ stack' = Append(stack, DiagnosticsFrame(passthrough, as_qobj,
                                               display_data_callback))
    /\ display_data_callback' = Len(stack) + 1
    /\ UNCHANGED <<busy, is_alive, ev, last, codec, startup, loader, diagnostics>>

\* the with block is left: the postprocessing loop when the body returned,
\* then the finally clause of the client's scope
capture_diagnostics_exit(by_exception) ==
    /\ stack # <<>>
    /\ Top.kind = "scope"
    /\ display_data_callback' = Top.old_callback
    /\ stack' = Pop
    /\ diagnostics' =
          [phase |-> "exit", by_exception |-> by_exception,
           as_qobj |-> Top.as_qobj, data |-> Top.captured_data,
           processed_data |-> postprocess(Top.captured_data, Top.as_qobj,
                                          by_exception),
           old_callback |-> Top.old_callback,
           display_data_callback |-> display_data_callback']
    /\ UNCHANGED <<busy, is_alive, ev, last, codec, startup, loader>>

(***************************************************************************)
(* component_versions with the handlers of _execute: the closure capture,  *)
(* and filter_display_data around it when a capture hook is installed.     *)
(***************************************************************************)
\* capture(msg): the versions dictionary as the set of its items
capture(msg) ==
    LET data == unmap_tuples(json_loads(get_qsharp_data(msg.content).s))
        rows == data.kv["rows"].xs
    IN  {<<rows[i].xs[1].s, rows[i].xs[2].s>> : i \in 1..Len(rows)}

\* filter_display_data calling the inner handler whatever the hook answers
filter_display_data_forwards(msg, passthrough) ==
    LET c == callback(msg, passthrough)
    IN  [append |-> c.append, versions |-> capture(msg)]

\* filter_display_data around capture: the hook first, capture only if the
\* hook returns True
filter_display_data(msg, passthrough) ==
    LET c == callback(msg, passthrough)
    IN  [append |-> c.append,
         versions |-> IF c.forward THEN capture(msg) ELSE {}]

\* handlers['display_data'] of the %version dispatch on the version table
version_handler(msg, hook, passthrough) ==
    IF hook # 0
    THEN filter_display_data(msg, passthrough)
    ELSE [append |-> <<>>, versions |-> capture(msg)]

\* the display message that carries the version table, under either tag
VersionMessages ==
    {DisplayData(QSharpData :> JsonVersionTable),
     DisplayData(AppJson :> JsonVersionTable)}

\* is_ready() called between commands: component_versions dispatches
\* %version quietly, the reply stream carries the version table, and the
\* transport call returns
CallComponentVersions ==
    /\ InFlight = {}
    /\ \E start_raises \in BOOLEAN, msg \in VersionMessages :
          LET cs == check_status(is_alive, start_raises)
              hook == display_data_callback
              passthrough == IF hook # 0 THEN stack[hook].passthrough ELSE FALSE
              exception == component_versions(is_alive, start_raises, busy,
                                              "returns", "rows")
              h == version_handler(msg, hook, passthrough)
              sent == exception = ""
          IN  /\ (sent /\ hook # 0 /\ h.append # <<>>) =>
                    Len(stack[hook].captured_data) < MaxCaptured
              /\ is_alive' = cs.alive
              /\ stack' = IF sent /\ hook # 0
                          THEN [stack EXCEPT ![hook].captured_data = @ \o h.append]
                          ELSE stack
              /\ startup' =
                    [pc |-> "probe", hook |-> hook, passthrough |-> passthrough,
                     msg |-> msg, exception |-> exception,
                     appended |-> IF sent THEN h.append ELSE <<>>,
                     versions |-> IF sent THEN h.versions ELSE {},
                     is_ready |-> is_ready(exception).value]
    /\ UNCHANGED <<busy, display_data_callback, ev, last, codec, loader, diagnostics>>

(***************************************************************************)
(* qsharp.get_available_operations_by_namespace on the characters of the   *)
(* names: str.rfind and the two slices.  A name is the sequence of its     *)
(* characters.                                                             *)
(***************************************************************************)
\* the names %who may list: callables in namespaces, in a nested namespace,
\* and callables of compiled snippets, which have no namespace
QualifiedNames ==
    {<<"A", ".", "B">>, <<"A", ".", "C">>, <<"C", ".", "B">>,
     <<"A", ".", "B", ".", "C">>, <<"A", "B">>, <<"B">>}

\* s.rfind(ch): the highest index (from 0) of ch in s, -1 if there is none
rfind(s, ch) ==
    LET hits == {i \in 1..Len(s) : s[i] = ch}
    IN  IF hits = {} THEN -1
        ELSE (CHOOSE i \in hits : \A j \in hits : j <= i) - 1

\* a slice bound as Python reads it: a negative bound counts from the end,
\* and bounds are clipped to the string
slice_bound(i, n) ==
    IF i < 0 THEN (IF i + n < 0 THEN 0 ELSE i + n)
    ELSE IF i > n THEN n ELSE i

\* the key and the entry the loop computes for one name:
\* qualified_name[:idx_last_dot] and qualified_name[idx_last_dot + 1:]
by_ns_key(qualified_name) ==
    LET idx_last_dot == rfind(qualified_name, ".")
    IN  SubSeq(qualified_name, 1, slice_bound(idx_last_dot, Len(qualified_name)))
by_ns_entry(qualified_name) ==
    LET idx_last_dot == rfind(qualified_name, ".")
    IN  SubSeq(qualified_name,
               slice_bound(idx_last_dot + 1, Len(qualified_name)) + 1,
               Len(qualified_name))

\* dict(by_ns.items()) after the loop over the listing
by_ns(ops) ==
    [key \in {by_ns_key(ops[i]) : i \in 1..Len(ops)} |->
        LET Mine(qualified_name) == by_ns_key(qualified_name) = key
            mine == SelectSeq(ops, Mine)
        IN  [i \in 1..Len(mine) |-> by_ns_entry(mine[i])]]

InitNamespaces ==
    /\ busy = FALSE
    /\ is_alive = TRUE
    /\ display_data_callback = 0
    /\ stack = <<>>
    /\ ev = NoEvent
    /\ last = [phase |-> "none"]
    /\ codec = [stage |-> "idle"]
    /\ startup = [pc |-> "idle"]
    /\ diagnostics = [phase |-> "none"]
    /\ \E n \in 0..MaxListing : \E ops \in [1..n -> QualifiedNames] :
           loader = [stage |-> "listing", ops |-> ops, by_ns |-> <<>>]

\* get_available_operations_by_namespace() on the listing %who returned
CallByNamespace ==
    /\ loader.stage = "listing"
    /\ loader' = [loader EXCEPT !.stage = "by_ns", !.by_ns = by_ns(loader.ops)]
    /\ UNCHANGED <<busy, is_alive, display_data_callback, stack, ev, last,
                   codec, startup, diagnostics>>

(***************************************************************************)
(* azure.execute and azure.output: the command goes through                *)
(* _execute_magic, and what _execute returns is unpacked into               *)
(* (result, content) and handed to process_result.                         *)
(***************************************************************************)
\* (result, content) = value: a pair unpacks into its two items, a dict
\* into its keys (the order of two keys does not matter to what follows);
\* another number of items is a ValueError, None and numbers a TypeError
unpack(value) ==
    LET items ==
            CASE value.t = "pair" -> <<value.fst, value.snd>>
              [] value.t = "tuple" -> value.items
              [] value.t = "list" -> value.xs
              [] value.t = "dict" ->
                    LET keys == ListOf(DOMAIN value.kv)
                    IN  [i \in 1..Len(keys) |-> PyStr(keys[i])]
              [] OTHER -> <<>>
    IN  IF value.t \notin {"pair", "tuple", "list", "dict"}
        THEN [error |-> "TypeError", result |-> PyNone, content |-> PyNone]
        ELSE IF Len(items) # 2
        THEN [error |-> "ValueError", result |-> PyNone, content |-> PyNone]
        ELSE [error |-> "", result |-> items[1], content |-> items[2]]

\* process_result(result, content); content['data'] on a str is a TypeError
process_result(result, content) ==
    IF result.t \in {"None", "int"}
    THEN [error |-> "TypeError", value |-> PyNone]
    ELSE IF In("error_code", result)
    THEN [error |-> "AzureError", value |-> result]
    ELSE IF In("physicalCounts", result)
    THEN [error |-> "", value |-> [t |-> "ResourceEstimatorResult", data |-> result]]
    ELSE IF /\ result.t = "list"
            /\ Len(result.xs) > 0
            /\ In("physicalCounts", result.xs[1])
    THEN [error |-> "",
          value |-> [t |-> "ResourceEstimatorBatchResult", data |-> result]]
    ELSE IF "data" \notin DOMAIN content
    THEN [error |-> "TypeError", value |-> PyNone]
    ELSE [error |-> "",
          value |-> [t |-> "AzureResult", data |-> result, content |-> content.data]]

\* azure.execute or azure.output is about to be called with keyword
\* arguments; the kernel will answer with one terminal result: the histogram
\* of the job or the error of the submission
InitAzure ==
    /\ busy = FALSE
    /\ is_alive = TRUE
    /\ display_data_callback = 0
    /\ stack = <<>>
    /\ ev = NoEvent
    /\ last = [phase |-> "none"]
    /\ startup = [pc |-> "idle"]
    /\ loader = [stage |-> "idle"]
    /\ diagnostics = [phase |-> "none"]
    /\ \E function \in {"execute", "output"}, arguments \in CallableArguments,
          option \in TimeoutOptions,
          reply \in {ExecuteResult(QSharpData :> JsonHistogram),
                     ExecuteResult(AppJson :> JsonHistogram),
                     ExecuteResult(QSharpData :> JsonJobError)} :
           codec = [stage |-> "azure", function |-> function,
                    params |-> option @@ arguments, reply |-> reply,
                    args |-> JNull, return_full_result |-> FALSE,
                    received |-> PyNone,
                    outcome |-> [error |-> "", value |-> PyNone]]

\* the function runs: return_full_result=True joins the keyword arguments
\* of _execute_magic (execute goes through _execute_callable_magic, which
\* passes its kwargs on), the reply stream holds the terminal result and no
\* error line, and the value _execute returns is unpacked and processed
CallAzure ==
    /\ codec.stage = "azure"
    /\ LET kwargs == ("return_full_result" :> PyBool(TRUE)) @@ codec.params
           command == execute_magic(kwargs)
           received == execute_outcome(<<>>, <<codec.reply>>,
                                       command.return_full_result).value
           u == unpack(received)
       IN  codec' = [codec EXCEPT
                        !.stage = "returned",
                        !.args = command.args,
                        !.return_full_result = command.return_full_result,
                        !.received = received,
                        !.outcome = IF u.error # ""
                                    THEN [error |-> u.error, value |-> PyNone]
                                    ELSE process_result(u.result, u.content)]
    /\ UNCHANGED <<busy, is_alive, display_data_callback, stack, ev, last, startup, loader, diagnostics>>

(***************************************************************************)
(* Specifications.                                                         *)
(***************************************************************************)
\* The session: callers, callbacks included, open and close capture scopes
\* and dispatch at any time; the reply streams carry display and status
\* messages.
Next ==
    \/ KernelDies
    \/ \E p \in BOOLEAN : EnterScope(p)
    \/ ExitScope
    \/ \E q \in BOOLEAN : Execute(FALSE, q)
    \/ \E msg \in DisplayMessages \cup {Status} : Deliver(msg)
    \/ \E full \in BOOLEAN : TransportReturns(full)
    \/ TransportRaises

Spec == Init /\ [][Next]_vars

\* The reply stream of one command: terminal results, stream and status
\* messages.  No capture scope is open, and a callback that had a dispatch
\* rejected does not try another one while the command is in flight.
NextDemux ==
    \/ KernelDies
    \/ \E r \in BOOLEAN : Execute(r, FALSE) /\ Cardinality(InFlight') <= 1
    \/ \E r \in BOOLEAN : ExecuteOutputHook(r) /\ Cardinality(InFlight') <= 1
    \/ \E msg \in TerminalMessages \cup StreamMessages : Deliver(msg)
    \/ \E full \in BOOLEAN : TransportReturns(full)
    \/ TransportRaises

SpecDemux == Init /\ [][NextDemux]_vars

\* The session shared by two threads: one dispatches a command and drains
\* its reply stream, the other opens and closes capture scopes meanwhile
\* (its with blocks nest, so it leaves its innermost scope first).  The
\* frames are in the order the calls began; the transport call returns when
\* no scope opened after it is open.
NextThreads ==
    \/ KernelDies
    \/ \E p \in BOOLEAN : EnterScope(p)
    \/ \E i \in {InnermostScope(stack)} : RestoreHook(i)
    \/ \E q \in BOOLEAN : Execute(FALSE, q) /\ Cardinality(InFlight') <= 1
    \/ \E n \in InFlight : \E msg \in DisplayMessages \cup {Status} : OutputHook(n, msg)
    \/ \E full \in BOOLEAN : TransportReturns(full)
    \/ TransportRaises

SpecThreads == Init /\ [][NextThreads]_vars

\* The two conversions of serialization.py applied to one value.
NextCodec ==
    \/ CallMapTuples
    \/ CallJsonDumps
    \/ CallUnmapTuples

SpecCodec == InitCodec /\ [][NextCodec]_vars

\* The package is imported: _start_client starts the client and polls it;
\* afterwards the caller probes and stops the session as it likes, and the
\* kernel process may die at any time.
NextStartup ==
    \/ StartClient
    \/ PollIsReady
    \/ CallIsReady
    \/ Stop
    \/ KernelDies

SpecStartup == InitStartup /\ [][NextStartup]_vars

\* A simulator method or _execute_callable_magic called with keyword arguments.
NextMagic == CallMagic

SpecMagic == InitMagic /\ [][NextMagic]_vars

\* Imports during a session: the caller and the callbacks of a command in
\* flight dispatch commands and run import statements.
NextImport ==
    \/ KernelDies
    \/ \E q \in BOOLEAN : Execute(FALSE, q)
    \/ find_module
    \/ Deliver(Status)
    \/ \E full \in BOOLEAN : TransportReturns(full)
    \/ TransportRaises

SpecImport == Init /\ [][NextImport]_vars

\* Dispatches inside the with blocks of qsharp.capture_diagnostics: the
\* with blocks follow one another, and the body of a block runs one command
\* at a time; passthrough keeps its default.
NextCapture ==
    \/ KernelDies
    \/ \E as_qobj \in BOOLEAN :
          /\ capture_diagnostics(FALSE, as_qobj)
          /\ stack = <<>>
    \/ \E by_exception \in BOOLEAN : capture_diagnostics_exit(by_exception)
    \/ Execute(FALSE, FALSE)
    \/ \E msg \in DiagnosticMessages : Deliver(msg)
    \/ TransportReturns(FALSE)
    \/ TransportRaises

SpecCapture == Init /\ [][NextCapture]_vars

\* The readiness probe inside and outside capture scopes.
NextProbe ==
    \/ KernelDies
    \/ \E p \in BOOLEAN : EnterScope(p)
    \/ ExitScope
    \/ CallComponentVersions

SpecProbe == Init /\ [][NextProbe]_vars

\* The listing of %who grouped by namespace.
NextNamespaces == CallByNamespace

SpecNamespaces == InitNamespaces /\ [][NextNamespaces]_vars

\* A call of azure.execute or azure.output.
NextAzure == CallAzure

SpecAzure == InitAzure /\ [][NextAzure]_vars

\* dir() of a Q# namespace module.
NextLoader == CallDir

SpecLoader == InitLoader /\ [][NextLoader]_vars

(***************************************************************************)
(* Sanity of the model: the hook is None or the callback of an open scope, *)
(* and the hook a dispatch began under is still installed while its reply  *)
(* stream is drained (capture scopes close in LIFO order), so the hook     *)
(* filter_display_data calls is never None.                                *)
(***************************************************************************)
HookStillInstalled ==
    /\ display_data_callback # 0 =>
          /\ display_data_callback \in 1..Len(stack)
          /\ stack[display_data_callback].kind = "scope"
    /\ \A i \in InFlight : stack[i].filtered => display_data_callback # 0

(***************************************************************************)
(* The properties.                                                         *)
(***************************************************************************)

\* C1: a dispatch attempted while the busy flag is true fails with
\* AlreadyExecutingError and sends no command to the transport.
C1_RejectedWhileBusy ==
    (last.phase = "entry" /\ last.busy_at_entry) =>
        (last.error = "AlreadyExecutingError" /\ ~last.sent)

\* C2: at most one command is in flight on the session: the transport has
\* at most one outstanding execute call.
C2_AtMostOneInFlight == Cardinality(InFlight) <= 1

\* C3: the busy flag is true for the whole duration of a command's
\* transport call; a rejected second dispatch leaves it true.
C3_BusyWhileInFlight ==
    /\ InFlight # {} => busy
    /\ (last.phase = "entry" /\ last.error = "AlreadyExecutingError") => last.busy_after

\* C4: when an admitted dispatch finishes, by a normal return, an
\* IQSharpError for collected error lines, or an exception of the transport
\* call, the busy flag is false when control returns to the caller.
C4_BusyClearedOnExit ==
    last.phase = "exit" => (~last.busy_after /\ ~busy)

C4_Witness ==
    /\ last.phase = "exit"
    /\ last.error = "TransportError"
    /\ ~busy

\* C5: a dispatch attempted while busy is rejected before any liveness
\* check: it neither checks the kernel nor restarts it.
C5_BusyCheckFirst ==
    (last.phase = "entry" /\ last.busy_at_entry) =>
        (~last.checked /\ ~last.restarted)

\* C6 as stated: a dispatch with raise_on_stderr whose reply stream held
\* stderr messages raises IQSharpError with exactly their texts, in order.
C6_StderrAlwaysRaised ==
    (last.phase = "exit" /\ last.raise_on_stderr /\ last.stderr # <<>>) =>
        (last.error = "IQSharpError" /\ last.iqsharp_errors = last.stderr)

\* C6, amended: a dispatch with raise_on_stderr whose transport call
\* returned and whose reply stream held stderr messages raises IQSharpError
\* with exactly their texts, all of them, in arrival order.
C6_StderrRaisedInOrder ==
    (last.phase = "exit" /\ last.completed /\ last.raise_on_stderr
        /\ last.stderr # <<>>) =>
        (last.error = "IQSharpError" /\ last.iqsharp_errors = last.stderr)

C6_Witness ==
    /\ last.phase = "exit"
    /\ last.completed
    /\ last.stderr = <<"a", "b">>
    /\ last.error = "IQSharpError"
    /\ last.iqsharp_errors = <<"a", "b">>

\* the payload a terminal-result message carries: its executionPath, or the
\* JSON text under one of the two structured-data media types
Payload(msg) ==
    IF "executionPath" \in DOMAIN msg.content
    THEN msg.content.executionPath
    ELSE IF QSharpData \in DOMAIN msg.content.data
    THEN msg.content.data[QSharpData]
    ELSE msg.content.data[AppJson]

HasPayload(msg) ==
    \/ "executionPath" \in DOMAIN msg.content
    \/ /\ {QSharpData, AppJson} \cap DOMAIN msg.content.data # {}
       /\ Payload(msg) # ""

\* C7 as stated: a reply stream that ends with no collected error lines
\* yields the decoded payload of the single terminal-result message, or
\* None if no terminal-result message arrived.
C7_DecodedPayloadReturned ==
    (last.phase = "exit" /\ last.completed /\ last.error # "IQSharpError") =>
        /\ last.results = <<>> => (last.error = "" /\ last.value = PyNone)
        /\ (Len(last.results) = 1 /\ HasPayload(last.results[1])) =>
              /\ last.error = ""
              /\ last.value =
                    unmap_tuples(IF "executionPath" \in DOMAIN last.results[1].content
                                 THEN Payload(last.results[1])
                                 ELSE json_loads(Payload(last.results[1])))

\* the object the amended C7 expects for a terminal-result message
ExpectedObject(msg) ==
    IF "executionPath" \in DOMAIN msg.content
    THEN msg.content.executionPath
    ELSE IF HasPayload(msg)
    THEN unmap_tuples(json_loads(Payload(msg)))
    ELSE PyNone

\* C7, amended: a reply stream that ends with no collected error lines
\* yields None if no terminal-result message arrived; if exactly one
\* arrived it yields obj, or the pair (obj, content) under
\* return_full_result, where obj is the content's executionPath as it is,
\* else the decoded JSON text under application/x-qsharp-data or, failing
\* that, application/json, else None (no such text, or an empty one).
C7_ResultOrNone ==
    (last.phase = "exit" /\ last.completed /\ last.error # "IQSharpError") =>
        /\ last.results = <<>> => (last.error = "" /\ last.value = PyNone)
        /\ Len(last.results) = 1 =>
              /\ last.error = ""
              /\ last.value =
                    IF last.return_full_result
                    THEN PyPair(ExpectedObject(last.results[1]), last.results[1].content)
                    ELSE ExpectedObject(last.results[1])

C7_Witness ==
    /\ last.phase = "exit"
    /\ last.completed
    /\ last.results = <<ExecuteResult(QSharpData :> JsonTuple)>>
    /\ ~last.return_full_result
    /\ last.value = PyTuple(<<PyInt(1)>>)

\* C8: in a dispatch without raise_on_stderr every stderr message goes to
\* the fallback sink, none is accumulated, and the dispatch does not raise
\* IQSharpError.
C8_StderrPassedThrough ==
    /\ (IsStderr(ev.msg) /\ ~ev.raise_on_stderr) =>
          (ev.sunk = 1 /\ ~ev.errors_changed)
    /\ \A i \in InFlight : ~stack[i].raise_on_stderr => stack[i].errors = <<>>
    /\ (last.phase = "exit" /\ ~last.raise_on_stderr) =>
          (last.error # "IQSharpError" /\ last.iqsharp_errors = <<>>)

C8_Witness ==
    /\ IsStderr(ev.msg)
    /\ ~ev.raise_on_stderr
    /\ ev.sunk = 1
    /\ stack # <<>>
    /\ Top.errors = <<>>

\* a display message carrying one of the two structured-data media types
Matches(msg) == {QSharpData, AppJson} \cap DOMAIN msg.content.data # {}

\* C9: in a non-quiet dispatch made inside a capture scope, a display
\* message matching the diagnostic media type is appended to the scope's
\* collection and reaches normal display exactly when passthrough is set.
C9_DiagnosticsCaptured ==
    (IsDisplay(ev.msg) /\ Matches(ev.msg) /\ ~ev.quiet /\ ev.hook # 0) =>
        (ev.appended /\ (ev.displayed = 1 <=> ev.passthrough))

\* C10: in a non-quiet dispatch a display message that does not match the
\* diagnostic media type is forwarded to normal display and is added to no
\* capture collection, hook or no hook, whatever its passthrough.
C10_NonDiagnosticForwarded ==
    (IsDisplay(ev.msg) /\ ~Matches(ev.msg) /\ ~ev.quiet) =>
        (ev.displayed = 1 /\ ~ev.appended)

C10_Witness ==
    /\ IsDisplay(ev.msg)
    /\ ~Matches(ev.msg)
    /\ ~ev.quiet
    /\ ev.hook # 0
    /\ ~ev.passthrough
    /\ ev.displayed = 1
    /\ ~ev.appended

\* C11: when a capture scope exits, after a body that ended normally or by
\* an exception, failed dispatches included, the installed hook is the hook
\* that was installed when the scope was entered (None included).
C11_HookRestoredOnExit ==
    [][(stack # <<>> /\ Top.kind = "scope" /\ stack' = Pop) =>
           display_data_callback' = Top.old_callback]_vars

\* a dispatch under the hook of an inner scope failed in the transport, the
\* inner scope has exited, and the hook of the outer scope is installed
C11_Witness ==
    /\ last.phase = "exit"
    /\ last.error = "TransportError"
    /\ last.began_under = 2
    /\ Len(stack) = 1
    /\ stack[1].kind = "scope"
    /\ stack[1].old_callback = 0
    /\ display_data_callback = 1

\* C12: one hook is active at a time and capture scopes nest last in, first
\* out: the installed hook is always the hook of the innermost open scope
\* and None when no scope is open (so an exit reinstalls the outer hook and
\* the outermost exit leaves none); a display message of a dispatch is
\* offered to the hook of the innermost scope only, and no collection but
\* that scope's grows.
C12_HooksNestLifo ==
    /\ [](display_data_callback = InnermostScope(stack))
    /\ [][/\ (/\ Len(stack') = Len(stack)
               /\ (ev' # ev \/ stack' # stack)
               /\ IsDisplay(ev'.msg)) => ev'.hook = InnermostScope(stack)
           /\ \A i \in 1..Len(stack) :
                 (/\ i <= Len(stack')
                  /\ stack[i].kind = "scope"
                  /\ stack'[i].kind = "scope"
                  /\ stack'[i].captured_data # stack[i].captured_data) =>
                     (i = InnermostScope(stack) /\ ev'.hook = i)]_vars

\* a dispatch made in an inner scope had a diagnostic captured: the inner
\* collection holds it and the outer collection is empty
C12_Witness ==
    /\ Len(stack) = 3
    /\ stack[1].kind = "scope"
    /\ stack[2].kind = "scope"
    /\ stack[3].kind = "exec"
    /\ IsDisplay(ev.msg)
    /\ ev.hook = 2
    /\ ev.appended
    /\ stack[2].captured_data = <<PyList(<<PyInt(1)>>)>>
    /\ stack[1].captured_data = <<>>
    /\ display_data_callback = 2

\* C13: a dispatch sees one hook for its whole reply stream: each display
\* message is offered to the hook that was installed when the dispatch
\* began (to none if none was), also when a capture scope is entered or
\* exited while the stream is drained, and no dispatch fails because the
\* hook changed.
C13_OneHookPerDispatch ==
    /\ IsDisplay(ev.msg) => ev.hook = ev.began_under
    /\ last.phase = "exit" => last.error # "TypeError"

\* C14: the capture hook takes a display message as a diagnostic exactly
\* when its payload carries application/json or application/x-qsharp-data,
\* whatever JSON value the text decodes to, and appends the decoded payload
\* to the collection.
C14_DiagnosticIffMediaType ==
    (IsDisplay(ev.msg) /\ ev.hook # 0) =>
        /\ ev.appended <=> Matches(ev.msg)
        /\ ev.appended =>
              LET captured_data == stack[ev.hook].captured_data
              IN  captured_data[Len(captured_data)] = json_loads(Payload(ev.msg))

\* C15: for every tuple t (lengths 0 to MaxTupleLen, the lengths 7, 8 and
\* above among them) unmap_tuples(map_tuples(t)) == t: same length, same
\* elements, same order.
C15_TupleRoundTrip ==
    (codec.stage = "decoded" /\ codec.encoded /\ codec.obj.t = "tuple") =>
        codec.decoded = codec.obj

\* a value built from scalars by nesting lists, tuples and string-keyed dicts
RECURSIVE IsNested(_)
IsNested(v) ==
    CASE v.t = "tuple" -> \A i \in 1..Len(v.items) : IsNested(v.items[i])
      [] v.t = "list" -> \A i \in 1..Len(v.xs) : IsNested(v.xs[i])
      [] v.t = "dict" -> \A k \in DOMAIN v.kv : IsNested(v.kv[k])
      [] OTHER -> v.t \in {"int", "str", "None"}

\* C16: for every value x built from scalars by nesting lists, tuples and
\* string-keyed dicts to any depth, unmap_tuples(map_tuples(x)) == x.
C16_NestedRoundTrip ==
    (codec.stage = "decoded" /\ codec.encoded /\ IsNested(codec.obj)) =>
        codec.decoded = codec.obj

\* C17: the wire form keeps plain mappings apart from tuples: for every
\* string-keyed mapping m of scalars, whatever its keys (Item1 and @type
\* included), unmap_tuples(map_tuples(m)) is a mapping, equal to m.
C17_MappingStaysMapping ==
    (/\ codec.stage = "decoded"
     /\ codec.encoded
     /\ codec.obj.t = "dict"
     /\ \A k \in DOMAIN codec.obj.kv : codec.obj.kv[k].t \in {"int", "str"}) =>
        (codec.decoded.t = "dict" /\ codec.decoded = codec.obj)

\* w is the wire form C18 prescribes for the value v
RECURSIVE Encodes(_, _)
Encodes(w, v) ==
    CASE v.t = "tuple" ->
            LET n == Len(v.items)
                m == IF n <= 7 THEN n ELSE 7
            IN  /\ w.t = "dict"
                /\ DOMAIN w.kv = {"@type"} \cup {ItemNames[k] : k \in 1..m}
                                     \cup (IF n > 7 THEN {"Rest"} ELSE {})
                /\ w.kv["@type"] = PyStr("tuple")
                /\ \A k \in 1..m : Encodes(w.kv[ItemNames[k]], v.items[k])
                /\ n > 7 => Encodes(w.kv["Rest"], PyTuple(SubSeq(v.items, 8, n)))
      [] v.t = "list" ->
            /\ w.t = "list"
            /\ Len(w.xs) = Len(v.xs)
            /\ \A k \in 1..Len(v.xs) : Encodes(w.xs[k], v.xs[k])
      [] v.t = "ndarray" ->
            /\ w.t = "list"
            /\ Len(w.xs) = Len(v.elems)
            /\ \A k \in 1..Len(v.elems) : Encodes(w.xs[k], v.elems[k])
      [] v.t = "dict" ->
            /\ w.t = "dict"
            /\ DOMAIN w.kv = DOMAIN v.kv
            /\ \A k \in DOMAIN v.kv : Encodes(w.kv[k], v.kv[k])
      [] v.t = "np.generic" -> w = v.item
      [] OTHER -> w = v

\* C18: map_tuples encodes a tuple of length n as a mapping with '@type':
\* 'tuple' and nothing else when n = 0, with exactly Item1 .. Item<n> holding
\* the encoded elements in order when 1 <= n <= 7, and with Item1 .. Item7
\* plus Rest, the encoding by the same scheme of the elements from the 8th
\* on, when n > 7; tuples inside lists, dicts and arrays likewise.
C18_TupleEncoding ==
    (codec.stage \in {"wire", "decoded"} /\ codec.encoded) =>
        Encodes(codec.wire, codec.obj)

\* a tuple of 15 elements is encoded with a Rest inside its Rest
C18_Witness ==
    /\ codec.stage = "wire"
    /\ codec.encoded
    /\ codec.obj = PyTuple(Range(15))
    /\ "Item7" \in DOMAIN codec.wire.kv
    /\ "Rest" \in DOMAIN codec.wire.kv
    /\ "Rest" \in DOMAIN codec.wire.kv["Rest"].kv
    /\ codec.wire.kv["Rest"].kv["Rest"].kv =
          ("@type" :> PyStr("tuple") @@ "Item1" :> PyInt(15))

\* a mapping C19 takes as tuple-encoded: the discriminator, or the key Item1
IsTupleEncoding(w) ==
    /\ w.t = "dict"
    /\ \/ Get(w.kv, "@type", PyNone) = PyStr("tuple")
       \/ "Item1" \in DOMAIN w.kv

\* the first index K for which ItemK is missing
FirstGap(kv) ==
    CHOOSE k \in 1..(Len(ItemNames) + 1) :
        /\ k <= Len(ItemNames) => ItemNames[k] \notin DOMAIN kv
        /\ \A j \in 1..(k - 1) : ItemNames[j] \in DOMAIN kv

\* an item key is present past a missing one
HasGap(kv) ==
    \E j \in 1..Len(ItemNames) : j > FirstGap(kv) /\ ItemNames[j] \in DOMAIN kv

\* the value C19 prescribes for the decoded JSON value w
RECURSIVE ExpectedDecoding(_)
ExpectedDecoding(w) ==
    IF IsTupleEncoding(w)
    THEN LET items == [j \in 1..(FirstGap(w.kv) - 1) |->
                          ExpectedDecoding(w.kv[ItemNames[j]])]
             rest == IF "Rest" \in DOMAIN w.kv /\ IsTupleEncoding(w.kv["Rest"])
                     THEN ExpectedDecoding(w.kv["Rest"]).items
                     ELSE <<>>
         IN  PyTuple(items \o rest)
    ELSE IF w.t = "dict"
    THEN PyDict([k \in DOMAIN w.kv |-> ExpectedDecoding(w.kv[k])])
    ELSE IF w.t = "list"
    THEN PyList([j \in 1..Len(w.xs) |-> ExpectedDecoding(w.xs[j])])
    ELSE w

\* C19: unmap_tuples takes a mapping as tuple-encoded if it carries the
\* discriminator or, without it, the key Item1, and decodes it to the tuple
\* of the decoded Item1, Item2, ... values followed, if a Rest sub-tuple is
\* present, by the decoded elements of Rest.
C19_RestAppended ==
    (/\ codec.stage = "decoded"
     /\ IsTupleEncoding(codec.wire)
     /\ ~HasGap(codec.wire.kv)) =>
        codec.decoded = ExpectedDecoding(codec.wire)

\* C20 as stated: decoding a tuple-encoding mapping whose ItemK keys are not
\* contiguous fails with MalformedWireValue and returns no partial tuple.
C20_GapRejected ==
    (/\ codec.stage = "decoded"
     /\ IsTupleEncoding(codec.wire)
     /\ HasGap(codec.wire.kv)) =>
        codec.error = "MalformedWireValue"

\* C20, amended: decoding a tuple-encoding mapping whose ItemK keys are not
\* contiguous raises nothing: it returns the tuple of the decoded items
\* before the first missing key (the empty tuple if Item1 is the missing
\* one) and drops the items after it.
C20_StopsAtFirstGap ==
    (/\ codec.stage = "decoded"
     /\ IsTupleEncoding(codec.wire)
     /\ HasGap(codec.wire.kv)) =>
        /\ codec.error = ""
        /\ codec.decoded =
              PyTuple([j \in 1..(FirstGap(codec.wire.kv) - 1) |->
                          unmap_tuples(codec.wire.kv[ItemNames[j]])])

\* Item1 and Item3 present, Item2 absent: the decoded value is (1,)
C20_Witness ==
    /\ codec.stage = "decoded"
    /\ codec.wire = PyDict("@type" :> PyStr("tuple") @@ "Item1" :> PyInt(1)
                           @@ "Item3" :> PyInt(3))
    /\ codec.decoded = PyTuple(<<PyInt(1)>>)
    /\ codec.error = ""

\* an argument that stands for the member m: m, its code, or its name
StandsFor(obj, m) == obj \in {m, PyInt(m.value), PyStr(EnumName(m))}

\* C21 as stated: a Result or Pauli given as the enumerated value, as its
\* integer code or as its name always goes on the wire as its integer code,
\* and the value decoded from a wire code is the typed enumerated value.
C21_EnumCodeOnWire ==
    /\ codec.stage = "json" =>
          \A m \in Result \cup Pauli :
              StandsFor(codec.obj, m) => codec.doc = JNum(m.value)
    /\ (codec.stage = "decoded" /\ ~codec.encoded /\ codec.wire.t = "int") =>
          codec.decoded.t = "IntEnum"

\* C21, amended: a Result or Pauli given as the enumerated value or as its
\* integer code goes on the wire as its integer code; given as its name it
\* goes on the wire as that string, unchanged; the value decoded from a wire
\* code is the plain int, which == the enumerated value of that code.
C21_EnumAsIntOrName ==
    /\ codec.stage = "json" =>
          \A m \in Result \cup Pauli :
              /\ codec.obj \in {m, PyInt(m.value)} => codec.doc = JNum(m.value)
              /\ codec.obj = PyStr(EnumName(m)) => codec.doc = JStr(EnumName(m))
    /\ (codec.stage = "decoded" /\ ~codec.encoded /\ codec.wire.t = "int") =>
          /\ codec.decoded = codec.wire
          /\ \A m \in Result \cup Pauli :
                m.value = codec.wire.i => PyEq(codec.decoded, m)

\* Pauli.Y went on the wire as 3
C21_Witness ==
    /\ codec.stage = "json"
    /\ codec.obj = IntEnum("Pauli", "Y", 3)
    /\ codec.wire = IntEnum("Pauli", "Y", 3)
    /\ codec.doc = JNum(3)

\* C22: every command handed to the transport is preceded, in the same
\* dispatch, by the liveness check; the session was restarted before the
\* command was sent exactly when the kernel was found dead.
C22_CheckedBeforeSend ==
    [][(Len(stack') = Len(stack) + 1 /\ stack'[Len(stack')].kind = "exec") =>
           /\ last'.phase = "entry"
           /\ last'.sent
           /\ last'.checked
           /\ last'.restarted = ~is_alive]_vars

\* a command was sent after the dead kernel was restarted
C22_Witness ==
    /\ last.phase = "entry"
    /\ last.sent
    /\ last.restarted
    /\ is_alive
    /\ stack # <<>>
    /\ Top.kind = "exec"

\* C23: is_ready never raises; when its status command fails (transport
\* exception or timeout, IQSharpError of a failed restart,
\* AlreadyExecutingError, a version payload capture cannot read) it returns
\* a false value, and it returns True only when the status command
\* completed without an exception.
C23_IsReadyNeverRaises ==
    startup.probe.client = "iqsharp" =>
        /\ ~startup.probe.raised
        /\ startup.probe.exception # "" => ~Truthy(startup.probe.value)
        /\ startup.probe.value = PyBool(TRUE) => startup.probe.exception = ""

\* is_ready was called while a command was in flight and returned None
C23_Witness ==
    /\ startup.probe.client = "iqsharp"
    /\ startup.probe.exception = "AlreadyExecutingError"
    /\ startup.probe.value = PyNone
    /\ ~startup.probe.raised

\* C24: _start_client makes at most 20 is_ready probes; it returns the
\* client at the first probe that reports ready and makes no further probe;
\* it raises IQSharpNotAvailableError if and only if all 20 probes failed;
\* a probe that raises is a failed attempt and does not end the loop.
C24_PollingBounded ==
    /\ [](/\ startup.idx_attempt <= attempts
          /\ startup.pc = "polling" =>
                /\ startup.idx_attempt < attempts
                /\ startup.failed = startup.idx_attempt
          /\ startup.pc = "returned" =>
                /\ Truthy(startup.server_ready)
                /\ startup.idx_attempt = startup.failed + 1
          /\ (startup.pc = "raised" /\ startup.error = "IQSharpNotAvailableError")
                <=> startup.failed = attempts
          /\ startup.pc = "raised" =>
                startup.error \in {"IQSharpNotInstalledError", "OSError",
                                   "IQSharpNotAvailableError"})
    /\ [][startup'.idx_attempt # startup.idx_attempt =>
              /\ startup.pc = "polling"
              /\ startup'.idx_attempt = startup.idx_attempt + 1
              /\ startup'.probe.raised =>
                    /\ startup'.failed = startup.failed + 1
                    /\ (startup'.idx_attempt < attempts => startup'.pc = "polling")]_vars

\* all 20 probes failed, the last one by raising, and _start_client raised
\* IQSharpNotAvailableError
C24_Witness ==
    /\ startup.pc = "raised"
    /\ startup.error = "IQSharpNotAvailableError"
    /\ startup.idx_attempt = attempts
    /\ startup.failed = attempts
    /\ startup.probe.raised

\* C25: every call of stop returns normally, whatever the state of the
\* session (never started, running, kernel dead, already stopped) and
\* whether or not the shutdown raised; a call on a stopped session leaves
\* it stopped.
C25_StopNeverRaises ==
    /\ [](startup.stop.called => ~startup.stop.raised)
    /\ [][(startup.kernel = "stopped" /\ startup'.stop # startup.stop) =>
              /\ startup'.kernel = "stopped"
              /\ is_alive' = is_alive]_vars

\* stop was called on a stopped session, the shutdown raised, stop returned
C25_Witness ==
    /\ startup.stop.called
    /\ startup.stop.was = "stopped"
    /\ startup.stop.shutdown_raised
    /\ ~startup.stop.raised

\* C26: in quiet mode no display message of the command reaches display_raw,
\* with or without a capture hook and even when the hook answers that the
\* message is to be forwarded; in non-quiet mode with no hook installed
\* every display message reaches display_raw.
C26_QuietNeverDisplays ==
    IsDisplay(ev.msg) =>
        /\ ev.quiet => ev.displayed = 0
        /\ (~ev.quiet /\ ev.hook = 0 /\ ev.began_under = 0) => ev.displayed = 1

\* a display message of a quiet command was captured by a hook with
\* passthrough on and was not displayed
C26_Witness ==
    /\ IsDisplay(ev.msg)
    /\ ev.quiet
    /\ ev.hook # 0
    /\ ev.passthrough
    /\ ev.appended
    /\ ev.displayed = 0

\* the terminal-result message carrying the payload of msg under the other
\* of the two tags
OtherTag(msg) ==
    IF QSharpData \in DOMAIN msg.content.data
    THEN ExecuteResult(AppJson :> msg.content.data[QSharpData])
    ELSE ExecuteResult(QSharpData :> msg.content.data[AppJson])

\* C27: a dispatch whose single terminal-result message carries its payload
\* under one of the two tags only returns the object that the same payload
\* under the other tag decodes to.
C27_TagsDecodeAlike ==
    (/\ last.phase = "exit"
     /\ last.completed
     /\ last.error = ""
     /\ Len(last.results) = 1
     /\ last.results[1].msg_type = "execute_result"
     /\ DOMAIN last.results[1].content.data \in {{QSharpData}, {AppJson}}) =>
        LET obj == result_object(OtherTag(last.results[1]).content)
        IN  last.value = IF last.return_full_result
                         THEN PyPair(obj, last.results[1].content)
                         ELSE obj

\* a tuple payload under application/json was decoded
C27_Witness ==
    /\ last.phase = "exit"
    /\ last.completed
    /\ last.results = <<ExecuteResult(AppJson :> JsonTuple)>>
    /\ ~last.return_full_result
    /\ last.value = PyTuple(<<PyInt(1)>>)

\* C28: a reply message that is not a terminal result, not a display message
\* and not a stderr message of a dispatch with raise_on_stderr goes, once,
\* to the fallback sink, which is the caller's output hook or, when none
\* was given, the transport's default hook; it changes neither the results
\* nor the errors of the dispatch.
C28_OthersToFallback ==
    (/\ ev.msg # NoMessage
     /\ ~IsTerminal(ev.msg)
     /\ ~IsDisplay(ev.msg)
     /\ ~(IsStderr(ev.msg) /\ ev.raise_on_stderr)) =>
        /\ ev.sunk = 1
        /\ ev.sink = IF ev.output_hook THEN "output_hook" ELSE "_output_hook_default"
        /\ ev.displayed = 0
        /\ ~ev.results_changed
        /\ ~ev.errors_changed

\* a status message of a dispatch with raise_on_stderr went to the caller's
\* output hook
C28_Witness ==
    /\ ev.msg = Status
    /\ ev.raise_on_stderr
    /\ ev.output_hook
    /\ ev.sunk = 1
    /\ ev.sink = "output_hook"

ExpectedNames(qs_name, ops) ==
    {q[Len(qs_name) + 1] :
        q \in {ops[i] : i \in {j \in 1..Len(ops) :
                                 /\ Len(ops[j]) > Len(qs_name)
                                 /\ SubSeq(ops[j], 1, Len(qs_name)) = qs_name}}}

\* C30: dir() of a Q# namespace module is the sorted list of the names of its
\* immediate sub-namespaces and of the callables defined directly in the
\* namespace, each name once, whatever operations are available, namespaces
\* nested more than one level below the module included.
C30_DirSortedOnce ==
    loader.stage = "dir" =>
        loader.result = sorted(ListOf(ExpectedNames(loader.qs_name, loader.ops)))

\* C31 as stated: a dispatch with raise_on_stderr that collected an error
\* line raises IQSharpError and returns no value, terminal-result messages
\* in its stream or not.
C31_ErrorsAlwaysFirst ==
    (last.phase = "exit" /\ last.raise_on_stderr /\ last.stderr # <<>>) =>
        (last.error = "IQSharpError" /\ last.value = PyNone)

\* C31, amended: a dispatch with raise_on_stderr whose transport call
\* returned and that collected an error line raises IQSharpError and returns
\* no value, however many terminal-result messages its stream held and
\* wherever they stood among the error lines.
C31_ErrorsFirstAtStreamEnd ==
    (last.phase = "exit" /\ last.completed /\ last.raise_on_stderr
        /\ last.stderr # <<>>) =>
        /\ last.error = "IQSharpError"
        /\ last.value = PyNone
        /\ last.results # <<>> => last.iqsharp_errors # <<>>

\* a stream with an error line and a terminal result ended in IQSharpError
C31_Witness ==
    /\ last.phase = "exit"
    /\ last.completed
    /\ last.raise_on_stderr
    /\ last.stderr = <<"a">>
    /\ Len(last.results) = 1
    /\ last.error = "IQSharpError"
    /\ last.value = PyNone

\* C32 as stated: a dispatch whose reply stream delivered more than one
\* terminal-result message and collected no error line fails with an
\* assertion failure, returns no value, and leaves the busy flag false.
C32_SecondResultAsserts ==
    (last.phase = "exit" /\ Len(last.results) > 1 /\ last.stderr = <<>>) =>
        /\ last.error = "AssertionError"
        /\ last.value = PyNone
        /\ ~last.busy_after

\* C32, amended: a dispatch whose transport call returned after its reply
\* stream delivered more than one terminal-result message, execute_result
\* or render_execution_path, and that collected no error line fails with an
\* assertion failure, returns no value, and leaves the busy flag false; if
\* the transport call raised, its exception reaches the caller, with no
\* value and the busy flag false as well.
C32_SecondResultAssertsAtStreamEnd ==
    (last.phase = "exit" /\ Len(last.results) > 1 /\ last.stderr = <<>>) =>
        /\ last.error = IF last.completed THEN "AssertionError" ELSE "TransportError"
        /\ last.value = PyNone
        /\ ~last.busy_after
        /\ ~busy

\* an execute_result and a render_execution_path message in one stream: the
\* dispatch failed its assertion
C32_Witness ==
    /\ last.phase = "exit"
    /\ last.completed
    /\ last.results = <<ExecuteResult(QSharpData :> JsonTuple),
                        RenderExecutionPath(WireTuple)>>
    /\ last.error = "AssertionError"
    /\ ~busy

\* the value C33 prescribes for the decoded JSON value w: of a tuple-encoded
\* mapping, the tuple of the decoded Item1..ItemK before the first gap
RECURSIVE ContiguousItems(_)
ContiguousItems(w) ==
    IF w.t = "dict"
    THEN IF IsTupleEncoding(w) \/ Get(w.kv, "@type", PyNone) = PyStr("@tuple")
         THEN PyTuple([j \in 1..(FirstGap(w.kv) - 1) |->
                         ContiguousItems(w.kv[ItemNames[j]])])
         ELSE PyDict([k \in DOMAIN w.kv |-> ContiguousItems(w.kv[k])])
    ELSE IF w.t = "list"
    THEN PyList([j \in 1..Len(w.xs) |-> ContiguousItems(w.xs[j])])
    ELSE w

\* C33: for every tuple-encoded mapping, with a gap or without, unmap_tuples
\* raises nothing and returns the tuple of the decoded values of
\* Item1..ItemK, K being the largest index with Item1..ItemK all present
\* (the empty tuple when Item1 is absent); every other key is ignored.
C33_DecodesUpToFirstGap ==
    (codec.stage = "decoded" /\ IsTupleEncoding(codec.wire)) =>
        /\ codec.error = ""
        /\ codec.decoded.t = "tuple"
        /\ Len(codec.decoded.items) = FirstGap(codec.wire.kv) - 1
        /\ codec.decoded = ContiguousItems(codec.wire)

\* Item2 present, Item1 absent: the decoded value is the empty tuple
C33_Witness ==
    /\ codec.stage = "decoded"
    /\ codec.wire = PyDict("@type" :> PyStr("tuple") @@ "Item2" :> PyInt(2))
    /\ codec.decoded = PyTuple(<<>>)
    /\ codec.error = ""

\* C34: find_module invoked while a command is in flight returns None and
\* sends no command to the kernel, also after a reentrant dispatch was
\* rejected during that command.
C34_NoDispatchFromImport ==
    (loader.stage = "find_module" /\ loader.in_flight) =>
        (loader.result = "None" /\ ~loader.sent)

\* C35: the list qsharp.capture_diagnostics yields is empty while its with
\* block is open; when the block is left the client's hook is the one saved
\* at entry, and the list is empty after an exception in the body, and
\* after a normal exit holds the captured diagnostics in arrival order,
\* each replaced by its Qobj when as_qobj is set and the conversion does
\* not return None.
C35_ListFilledAtExit ==
    /\ \A i \in 1..Len(stack) :
          stack[i].kind = "scope" => stack[i].processed_data = <<>>
    /\ diagnostics.phase = "exit" =>
          /\ diagnostics.display_data_callback = diagnostics.old_callback
          /\ IF diagnostics.by_exception
             THEN diagnostics.processed_data = <<>>
             ELSE /\ Len(diagnostics.processed_data) = Len(diagnostics.data)
                  /\ \A j \in 1..Len(diagnostics.data) :
                        diagnostics.processed_data[j] =
                            IF /\ diagnostics.as_qobj
                               /\ convert_diagnostic_to_qobj(diagnostics.data[j]) # PyNone
                            THEN convert_diagnostic_to_qobj(diagnostics.data[j])
                            ELSE diagnostics.data[j]

\* a state vector and a state that is not mixed were captured in this
\* order with as_qobj set, and the block was left normally
C35_Witness ==
    /\ diagnostics.phase = "exit"
    /\ ~diagnostics.by_exception
    /\ diagnostics.as_qobj
    /\ diagnostics.data = <<StateVector, PureState>>
    /\ diagnostics.processed_data =
          <<Qobj("ket", 1, StateVector.kv["amplitudes"]), PureState>>

\* C36: when component_versions runs while a capture hook with
\* passthrough=False is installed, the version table of the %version reply
\* is appended to the capture collection and capture is not called for it:
\* the versions dictionary is empty, and is_ready returns True.
C36_HookInterceptsVersionTable ==
    (/\ startup.pc = "probe"
     /\ startup.exception = ""
     /\ startup.hook # 0
     /\ ~startup.passthrough)
        => /\ startup.appended = <<VersionTable>>
           /\ startup.versions = {}
           /\ startup.is_ready = PyBool(TRUE)

\* the probe ran inside a scope with passthrough=False whose collection now
\* ends with the version table
C36_Witness ==
    /\ startup.pc = "probe"
    /\ startup.exception = ""
    /\ startup.hook # 0
    /\ ~startup.passthrough
    /\ startup.versions = {}
    /\ startup.is_ready = PyBool(TRUE)
    /\ stack[startup.hook].captured_data # <<>>
    /\ stack[startup.hook].captured_data[Len(stack[startup.hook].captured_data)]
          = VersionTable

\* C37: a dispatch that finds the kernel dead and whose restart raises
\* (the kernel is still dead after it) raises IQSharpError with the single
\* line "IQ# is not running.", hands nothing to the transport, and leaves
\* the busy flag as it was.
C37_NotRunning ==
    [][(/\ ~is_alive
        /\ ~is_alive'
        /\ last' # last
        /\ last'.phase = "entry")
          => /\ last'.error = "IQSharpError"
             /\ last'.iqsharp_errors = <<"IQ# is not running.">>
             /\ ~last'.sent
             /\ stack' = stack
             /\ last'.busy_after = last'.busy_at_entry
             /\ busy' = busy]_vars

\* a callback dispatched while a command was in flight, the kernel was dead
\* and the restart raised: the busy flag is still set
C37_Witness ==
    /\ last.phase = "entry"
    /\ last.error = "IQSharpError"
    /\ last.iqsharp_errors = <<"IQ# is not running.">>
    /\ last.busy_at_entry
    /\ busy
    /\ ~is_alive
    /\ InFlight # {}

\* key + "." + entry for the entries under one key, in their order
Joined(grouped, key) ==
    [j \in 1..Len(grouped[key]) |-> key \o <<".">> \o grouped[key][j]]

\* the grouping partitions the listing: the entries under a key contain no
\* ".", joined to their key they are names of the listing in listing order,
\* once for each occurrence, and every name of the listing is among them
Partitions(grouped, ops) ==
    /\ \A key \in DOMAIN grouped :
          LET Listed(qualified_name) ==
                  \E j \in 1..Len(grouped[key]) :
                      Joined(grouped, key)[j] = qualified_name
          IN  /\ grouped[key] # <<>>
              /\ \A j \in 1..Len(grouped[key]) :
                    \A c \in 1..Len(grouped[key][j]) : grouped[key][j][c] # "."
              /\ Joined(grouped, key) = SelectSeq(ops, Listed)
    /\ \A i \in 1..Len(ops) :
          \E key \in DOMAIN grouped : \E j \in 1..Len(grouped[key]) :
              Joined(grouped, key)[j] = ops[i]

\* C38: get_available_operations_by_namespace partitions every listing by
\* namespace: each name is entered once, as its part after the last "."
\* under its part before the last ".", so that key + "." + entry is the
\* name, in listing order, and nothing else is entered.
C38_PartitionsEveryListing ==
    loader.stage = "by_ns" => Partitions(loader.by_ns, loader.ops)

\* C39: azure.execute and azure.output get the pair (decoded value, raw
\* content) from _execute: return_full_result is a dispatch option, true in
\* the call of _execute and absent from the JSON argument object, and the
\* result is process_result of the decoded value and the content.
C39_FullResultReachesDispatch ==
    (codec.stage = "returned" /\ codec.function \in {"execute", "output"}) =>
        LET content == codec.reply.content
        IN  /\ codec.return_full_result
            /\ "return_full_result" \notin DOMAIN codec.args.kv
            /\ codec.received = PyPair(result_object(content), content)
            /\ codec.outcome = process_result(result_object(content), content)

============================================================================
